---------------------------- MODULE Spec2Model ----------------------------
(***************************************************************************)
(* Analysis Job Orchestrator of the backend: the job store (analysis       *)
(* requests, live-status rows, result rows), the worker poll loop with its *)
(* skip-locked claim, the motion / music sub-tasks with the forked music   *)
(* thread, the status read with its stale check, and the rerun operations. *)
(*                                                                         *)
(* Every database transaction (one commit) and every set_job call is one   *)
(* atomic step; the steps of different workers, threads and API calls      *)
(* interleave freely.  Progress values are percentages (0.03 -> 3).        *)
(***************************************************************************)
EXTENDS Integers, FiniteSets, Sequences, TLC

\* ------------------------------------------------------------------ bounds
\* StaleRunningMinutes is the configured STALE_RUNNING_MINUTES (a positive
\* number of minutes); the clock counts minutes up to MaxTime.
MaxRequests == 2
NumMotionWorkers == 2
NumMusicWorkers == 1
MaxThreads == 2
MaxTime == 2
MaxApiCalls == 1

StaleRunningMinutes == 1


NoVal == 0 - 1

Requests == 1..MaxRequests
MotionWorkers == 1..NumMotionWorkers
MusicWorkers == (NumMotionWorkers + 1)..(NumMotionWorkers + NumMusicWorkers)
Workers == MotionWorkers \cup MusicWorkers
Threads == 1..MaxThreads
Modes == {"dance"}

VARIABLES
  now,       \* wall clock, in minutes
  req,       \* analysis_requests rows
  job,       \* analysis_jobs rows (LiveStatus)
  res,       \* analysis_results rows
  lock,      \* row lock of each request row: 0, or the worker holding it
  wk,        \* per worker: position in _tick and its session / locals
  th,        \* forked music threads
  api,       \* the API call in flight between two of its transactions
  calls,     \* number of API calls made so far
  claimers,  \* history: the workers that flipped the row since it was last queued
  last_read, \* history: the last status read
  sse,       \* the event stream of GET /analysis/{id}/events
  ms,        \* a call of compute_match_score: its arguments and its result
  resp,      \* the HTTP response of the last call of a media-checking handler
  stale_minutes  \* the configured STALE_RUNNING_MINUTES of the API process

vars ==
  <<now, req, job, res, lock, wk, th, api, calls, claimers, last_read, sse, ms, resp,
    stale_minutes>>

\* ------------------------------------------------------------------- rows
NoRequest ==
  [exists |-> FALSE, status |-> "none", is_deleted |-> FALSE, mode |-> "none",
   user_id |-> 0, video_id |-> 0, audio_id |-> 0,
   music_only |-> FALSE, skip_music |-> FALSE, extract_audio |-> FALSE,
   error_message |-> "none", started_at |-> NoVal, finished_at |-> NoVal]

\* The server processes: the API server (WORKER_ENABLED=false) and the worker
\* host; each has its own module-level _jobs dict (jobs.py:9).
Procs == {"api", "worker"}

\* An analysis_jobs row, with the entry of each process's _jobs dict for the
\* same request id (<<>>: no entry).
NoJob ==
  [exists |-> FALSE, status |-> "none", error_message |-> "none",
   message |-> "none", progress |-> NoVal, log |-> "none", updated_at |-> NoVal,
   cache |-> [p \in Procs |-> <<>>]]

\* score_writes and score_raised are history: the stores of a score since the
\* last reset, and whether a scoring attempt raised since then.
NoResult ==
  [exists |-> FALSE, motion_json_s3_key |-> FALSE, magic_json_s3_key |-> FALSE,
   music_json_s3_key |-> FALSE, match_score |-> "null",
   score_writes |-> 0, score_raised |-> FALSE]

IdleWorker ==
  [pc |-> "idle", rid |-> 0, loaded |-> "expired", mt |-> 0, res_seen |-> FALSE,
   exc |-> "none", stage |-> 0]

FreeThread ==
  [pc |-> "free", rid |-> 0, owner |-> 0, res_seen |-> FALSE, outcome |-> "none"]

NoCall ==
  [op |-> "idle", rid |-> 0, status |-> "none", error |-> "none",
   message |-> "none", progress |-> NoVal, log |-> "none"]

\* ---------------------------------------------------------------- set_job
\* jobs.py set_job with db given: insert the row if missing, overwrite status,
\* overwrite each other field only when the argument is not None.  updated_at
\* has onupdate=now(): it moves when the row is inserted or a column changes.
MergeJob(old, status, error, message, progress, log) ==
  [exists        |-> TRUE,
   status        |-> status,
   error_message |-> IF error /= "none" THEN error ELSE old.error_message,
   message       |-> IF message /= "none" THEN message ELSE old.message,
   progress      |-> IF progress /= NoVal THEN progress ELSE old.progress,
   log           |-> IF log /= "none" THEN log ELSE old.log,
   updated_at    |-> old.updated_at,
   cache         |-> old.cache]

\* jobs.py:22-33: the entry of _jobs, merged the same way (a key never set
\* reads as None).
MergeCache(old, status, error, message, progress, log) ==
  LET o == IF old = <<>>
           THEN [status |-> "none", error |-> "none", message |-> "none",
                 progress |-> NoVal, log |-> "none"]
           ELSE old
  IN [status   |-> status,
      error    |-> IF error /= "none" THEN error ELSE o.error,
      message  |-> IF message /= "none" THEN message ELSE o.message,
      progress |-> IF progress /= NoVal THEN progress ELSE o.progress,
      log      |-> IF log /= "none" THEN log ELSE o.log]

\* set_job called in process p: the cache entry first, then the row.
set_job(p, j, r, status, error, message, progress, log) ==
  LET m == MergeJob(j[r], status, error, message, progress, log)
      row == IF m = j[r] THEN m ELSE [m EXCEPT !.updated_at = now]
  IN [j EXCEPT ![r] = [row EXCEPT !.cache[p] =
                         MergeCache(j[r].cache[p], status, error, message,
                                    progress, log)]]

\* get_job that looks into _jobs first.
get_job_cached(p, r) ==
  IF job[r].cache[p] /= <<>>
  THEN job[r].cache[p]
  ELSE IF job[r].exists
  THEN [status |-> job[r].status, error |-> job[r].error_message,
        message |-> job[r].message, progress |-> job[r].progress,
        log |-> job[r].log]
  ELSE <<>>

\* jobs.py get_job called in process p with db given: the dict built from
\* the persisted row (keys status, error, message, progress and log, and no
\* other) when there is one, else the entry of _jobs (None when missing).
get_job(p, r) ==
  IF job[r].exists
  THEN [status |-> job[r].status, error |-> job[r].error_message,
        message |-> job[r].message, progress |-> job[r].progress,
        log |-> job[r].log]
  ELSE job[r].cache[p]

\* History of the last call of get_analysis_status: what it returned, what
\* LiveStatus looked like when it was called, and whether it failed the row.
NoRead ==
  [rid |-> 0, status |-> "none", error_message |-> "none",
   live_stale |-> FALSE, live_fresh |-> FALSE, marked |-> FALSE]

\* analysis_events: no stream yet.  `last` is last_payload (None at first),
\* `emitted` tells whether the last poll yielded an event.
NoPayload ==
  [id |-> 0, status |-> "none", message |-> "none", progress |-> NoVal,
   error_message |-> "none", log |-> "none"]

NoStream == [state |-> "none", rid |-> 0, last |-> NoPayload, emitted |-> FALSE]

NoResponse == [op |-> "none", code |-> 0, detail |-> "none"]

\* ------------------------------------------------------------- media files
\* The media_files table: every user has uploaded one video and one audio
\* file; the id after the last row names no row.  0 stands for None.
NumUsers == 2
Users == 1..NumUsers
OwnVideo(u) == 2 * u - 1
OwnAudio(u) == 2 * u
MissingMedia == 2 * NumUsers + 1
MediaRefs == 0..MissingMedia
MediaFile(m) ==
  IF m \in 1..2 * NumUsers
  THEN [exists |-> TRUE, user_id |-> (m + 1) \div 2,
        type |-> IF m % 2 = 1 THEN "video" ELSE "audio"]
  ELSE [exists |-> FALSE, user_id |-> 0, type |-> "none"]

Http(code, detail) == [code |-> code, detail |-> detail]
Ok == Http(200, "ok")

\* _get_media_or_404, lines 19-26.
get_media_or_404(media_id, expected_type) ==
  IF ~MediaFile(media_id).exists THEN Http(404, "media not found")
  ELSE IF MediaFile(media_id).type /= expected_type
       THEN Http(400, "media must be of the expected type")
       ELSE Ok

\* _require_owned_media, lines 28-43.
require_owned_media(user_id, media_id, expected_type, not_found_detail, forbidden_detail) ==
  IF ~MediaFile(media_id).exists THEN Http(404, not_found_detail)
  ELSE IF MediaFile(media_id).user_id /= user_id THEN Http(403, forbidden_detail)
  ELSE IF MediaFile(media_id).type /= expected_type
       THEN Http(400, "media must be of the expected type")
       ELSE Ok

\* ----------------------------------------------------------- match scorer
\* services/match_score.py.  Times are counted in steps of 0.05 s and weights
\* in tenths; a float in [0, 1] is the pair <<numerator, denominator>>, and
\* the sigmoid is computed in fixed point with four decimals.
MaxEvents == 2
MaxKeypoints == 1
DefaultTau == 6
SigmoidK == 12
SigmoidX0 == 55
Scale == 10 ^ 4
MotionTimes == {0, 20, 24}
MusicTimes == {0, 21}
TauSet == {2, DefaultTau}
Bands == <<"low", "mid", "high">>

Abs(x) == IF x < 0 THEN 0 - x ELSE x
Max(a, b) == IF a >= b THEN a ELSE b

\* Python's truth value of item.get(key): None and 0.0 are both false.
Falsy(v) == v = NoVal \/ v = 0

\* a or b or c or 0.0
OrChain(a, b, c) ==
  IF ~Falsy(a) THEN a ELSE IF ~Falsy(b) THEN b ELSE IF ~Falsy(c) THEN c ELSE 0

\* The events the motion pipeline writes: a hit carries "t", a hold "t_start".
MotionItem(kind, t) ==
  IF kind = "hold"
  THEN [type |-> "hold", t_start |-> t, start |-> NoVal, t |-> NoVal, time |-> NoVal]
  ELSE [type |-> "hit", t_start |-> NoVal, start |-> NoVal, t |-> t, time |-> NoVal]

MotionItems == {MotionItem(k, t) : k \in {"hit", "hold"}, t \in MotionTimes}

SeqsUpTo(S, n) == UNION {[1..m -> S] : m \in 0..n}

MotionJsons == SeqsUpTo(MotionItems, MaxEvents)

\* keypoints_by_band: for each band the list of its keypoints' times.
MusicJsons == [{"low", "mid", "high"} -> SeqsUpTo(MusicTimes, MaxKeypoints)]

BandWeight(band) ==
  IF band = "low" THEN 7 ELSE IF band = "mid" THEN 9 ELSE 10

\* _load_music_events: the bands in the order low, mid, high.
load_music_events(music_json) ==
  LET ev(band) == [i \in 1..Len(music_json[band]) |->
                     [t |-> OrChain(music_json[band][i], NoVal, NoVal),
                      weight |-> BandWeight(band)]]
  IN ev(Bands[1]) \o ev(Bands[2]) \o ev(Bands[3])

\* _load_motion_events.
load_motion_events(motion_json) ==
  [i \in 1..Len(motion_json) |->
     LET item == motion_json[i]
     IN IF item.type = "hold"
        THEN [t |-> OrChain(item.t_start, item.start, item.t), weight |-> 8]
        ELSE [t |-> OrChain(item.t, item.time, NoVal), weight |-> 10]]

RECURSIVE MinOf(_)
MinOf(S) ==
  LET x == CHOOSE y \in S : TRUE
  IN IF S = {x} THEN x
     ELSE LET m == MinOf(S \ {x}) IN IF x < m THEN x ELSE m

\* The loop of _weighted_coverage from event i on; the sum is in units of
\* 1 / (10 * tau).
RECURSIVE CoverageLoop(_, _, _, _)
CoverageLoop(events_a, b_times, tau, i) ==
  IF i > Len(events_a) \/ b_times = <<>> THEN 0
  ELSE LET e == events_a[i]
           best_dt == MinOf({Abs(e.t - b_times[j]) : j \in 1..Len(b_times)})
           hit == IF best_dt <= tau THEN Max(0, tau - best_dt) * e.weight ELSE 0
       IN hit + CoverageLoop(events_a, b_times, tau, i + 1)

RECURSIVE SumWeights(_, _)
SumWeights(events, i) ==
  IF i > Len(events) THEN 0 ELSE events[i].weight + SumWeights(events, i + 1)

\* The same with every event counted as 1.0 in the denominator.
weighted_coverage_count(events_a, events_b, tau) ==
  IF events_a = <<>> THEN <<0, 1>>
  ELSE <<CoverageLoop(events_a, [j \in 1..Len(events_b) |-> events_b[j].t], tau, 1),
         tau * 10 * Len(events_a)>>

\* _weighted_coverage.
weighted_coverage(events_a, events_b, tau) ==
  IF events_a = <<>> THEN <<0, 1>>
  ELSE LET b_times == [j \in 1..Len(events_b) |-> events_b[j].t]
           total == CoverageLoop(events_a, b_times, tau, 1)
           sum == SumWeights(events_a, 1)
           denom == IF sum = 0 THEN 10 ELSE sum
       IN <<total, tau * denom>>

\* The alternating series of e^(-y), y and the result in units of 1 / Scale.
RECURSIVE ExpSeries(_, _, _)
ExpSeries(y, i, term) ==
  IF term = 0 \/ i > 12 THEN 0
  ELSE term - ExpSeries(y, i + 1, (term * y) \div (i * Scale))

\* math.exp(-x) for x >= 0: e^(-x) = (e^(-x/8))^8.
ExpNeg(x) ==
  LET g0 == ExpSeries(x \div 8, 1, Scale)
      g1 == (g0 * g0) \div Scale
      g2 == (g1 * g1) \div Scale
  IN (g2 * g2) \div Scale

\* The same with the sign of the exponent reversed.
sigmoid_reversed(x, k, x0) ==
  LET p == k * (100 * x[1] - x0 * x[2])
      g == ExpNeg((Abs(p) * (Scale \div 100)) \div x[2])
  IN IF p >= 0 THEN (g * Scale) \div (Scale + g)
     ELSE (Scale * Scale) \div (Scale + g)

\* _sigmoid: 1 / (1 + exp(-k (x - x0))), x0 in hundredths, the result in
\* units of 1 / Scale.
sigmoid(x, k, x0) ==
  LET p == k * (100 * x[1] - x0 * x[2])
      g == ExpNeg((Abs(p) * (Scale \div 100)) \div x[2])
  IN IF p >= 0 THEN (Scale * Scale) \div (Scale + g)
     ELSE (g * Scale) \div (Scale + g)

\* int(round(score_raw * 100)): round half to even.
RoundScore(raw) ==
  LET q == raw \div (Scale \div 100)
      r == raw % (Scale \div 100)
      half == Scale \div 200
  IN IF r < half THEN q
     ELSE IF r > half THEN q + 1
     ELSE IF q % 2 = 0 THEN q ELSE q + 1

\* compute_match_score.
compute_match_score(music_json, motion_json, tau, sigmoid_k, sigmoid_x0) ==
  LET music_events == load_music_events(music_json)
      motion_events == load_motion_events(motion_json)
      motion_to_music == weighted_coverage(motion_events, music_events, tau)
      score_raw == sigmoid(motion_to_music, sigmoid_k, sigmoid_x0)
  IN [score |-> RoundScore(score_raw), motion_to_music |-> motion_to_music,
      score_raw |-> score_raw]

NoOutcome == [score |-> NoVal, motion_to_music |-> <<0, 1>>, score_raw |-> NoVal]
NoScore == [pc |-> "idle", music_json |-> [b \in {"low", "mid", "high"} |-> <<>>],
            motion_json |-> <<>>, tau |-> DefaultTau, out |-> NoOutcome]

\* ------------------------------------------------------------------- Init
InitRows ==
  /\ now = 0
  /\ req = [r \in Requests |-> NoRequest]
  /\ job = [r \in Requests |-> NoJob]
  /\ res = [r \in Requests |-> NoResult]
  /\ lock = [r \in Requests |-> 0]
  /\ wk = [w \in Workers |-> IdleWorker]
  /\ th = [t \in Threads |-> FreeThread]
  /\ api = NoCall
  /\ calls = 0
  /\ claimers = [r \in Requests |-> {}]
  /\ last_read = NoRead
  /\ sse = NoStream
  /\ resp = NoResponse

\* The stale check is configured with its threshold.
InitStore ==
  /\ InitRows
  /\ stale_minutes = StaleRunningMinutes

Init ==
  /\ InitStore
  /\ ms = NoScore

\* The clock advances.
Tick ==
  /\ now < MaxTime
  /\ now' = now + 1
  /\ UNCHANGED <<req, job, res, lock, wk, th, api, calls, claimers, last_read, sse, ms, resp, stale_minutes>>


\* ------------------------------------------------------- worker: the claim
\* Both classes poll for queued.
WorkerFilterQueued(w) == "queued"

\* The status each class polls for (lines 151 and 489).
WorkerFilter(w) == IF w \in MotionWorkers THEN "queued" ELSE "queued_music"

\* The query without with_for_update(skip_locked=True): rows another worker
\* has already read for its claim are selected too.
FetchCandidatesUnlocked(w) ==
  {r \in Requests : /\ req[r].exists
                    /\ req[r].status = WorkerFilter(w)
                    /\ ~req[r].is_deleted}

\* The query without the is_deleted filter.
FetchCandidatesDeleted(w) ==
  {r \in Requests : /\ req[r].exists
                    /\ req[r].status = WorkerFilter(w)
                    /\ lock[r] = 0}

\* The rows the worker's query selects: status matches the class filter,
\* is_deleted is false, and (skip_locked) no other transaction locks the row.
FetchCandidates(w) ==
  {r \in Requests : /\ req[r].exists
                    /\ req[r].status = WorkerFilter(w)
                    /\ ~req[r].is_deleted
                    /\ lock[r] = 0}

\* order_by(created_at.desc()).first().
Newest(S) == CHOOSE r \in S : \A q \in S : r >= q

\* order_by(created_at.asc()).first(): ids are handed out in creation order.
Oldest(S) == CHOOSE r \in S : \A q \in S : r <= q

\* _tick, lines 107-113: SELECT ... FOR UPDATE SKIP LOCKED.  The row stays
\* locked by this worker's transaction until its commit.  The row just read
\* has is_deleted = false (the filter), so line 112 never returns.
fetch_request(w) ==
  /\ wk[w].pc = "idle"
  /\ FetchCandidates(w) /= {}
  /\ LET r == Oldest(FetchCandidates(w))
     IN /\ lock' = [lock EXCEPT ![r] = w]
        /\ wk' = [wk EXCEPT ![w] = [IdleWorker EXCEPT !.pc = "claimed", !.rid = r,
                                                      !.loaded = req[r].status]]
  /\ UNCHANGED <<now, req, job, res, th, api, calls, claimers, last_read, sse, ms, resp, stale_minutes>>

\* A claim that stamps started_at on every claim.
tick_claim_restamp(w) ==
  /\ wk[w].pc = "claimed"
  /\ LET r == wk[w].rid
     IN /\ req' = [req EXCEPT ![r].status = "running", ![r].started_at = now]
        /\ lock' = [lock EXCEPT ![r] = IF lock[r] = w THEN 0 ELSE lock[r]]
        /\ claimers' = [claimers EXCEPT ![r] = claimers[r] \cup {w}]
  /\ wk' = [wk EXCEPT ![w].pc = "start", ![w].loaded = "expired"]
  /\ UNCHANGED <<now, job, res, th, api, calls, last_read, sse, ms, resp, stale_minutes>>

\* _tick, lines 115-118: flip the row to running and commit (the lock goes).
tick_claim(w) ==
  /\ wk[w].pc = "claimed"
  /\ LET r == wk[w].rid
     IN /\ req' = [req EXCEPT ![r].status = "running",
                              ![r].started_at =
                                 IF req[r].started_at = NoVal THEN now
                                 ELSE req[r].started_at]
        /\ lock' = [lock EXCEPT ![r] = IF lock[r] = w THEN 0 ELSE lock[r]]
        /\ claimers' = [claimers EXCEPT ![r] = claimers[r] \cup {w}]
  /\ wk' = [wk EXCEPT ![w].pc = "start", ![w].loaded = "expired"]
  /\ UNCHANGED <<now, job, res, th, api, calls, last_read, sse, ms, resp, stale_minutes>>

\* _tick, line 119.
tick_publish_start(w) ==
  /\ wk[w].pc = "start"
  /\ job' = set_job("worker", job, wk[w].rid, "running", "none",
                    "analysis: starting", 3, "none")
  /\ wk' = [wk EXCEPT ![w].pc = "handle", ![w].loaded = "expired"]
  /\ UNCHANGED <<now, req, res, lock, th, api, calls, claimers, last_read, sse, ms, resp, stale_minutes>>

\* _abort_if_deleted: db.refresh(req) loads the row; raise if it is deleted.
Deleted(w) == req[wk[w].rid].is_deleted

\* The worker after a raise: the except branch of _tick runs next.  `loaded`
\* is the status the session holds for the row (or "expired" after a commit).
Raise(w, msg, loaded) ==
  [wk[w] EXCEPT !.pc = "except", !.exc = msg, !.loaded = loaded]

\* A write of req.status by the ORM reaches the UPDATE only when the value
\* differs from the one the session has loaded.
WriteStatus(w, r, v) == IF wk[w].loaded = v THEN req[r].status ELSE v

\* ------------------------------------------- motion worker: _handle_request
\* The fork decided by the inputs alone.
should_run_music_any(r) == req[r].audio_id /= 0 \/ req[r].extract_audio

\* _should_run_music, lines 327-335.
should_run_music(r) ==
  IF req[r].skip_music THEN FALSE
  ELSE req[r].audio_id /= 0 \/ req[r].extract_audio

\* A thread slot no worker is waiting on.
FreeSlots == {t \in Threads : th[t].pc \in {"free", "done"}
                              /\ \A w \in Workers : wk[w].mt /= t}

\* MotionAnalysisWorker._handle_request down to the thread start of
\* _run_dance / _run_magic (lines 158-193): deleted check, the music_only
\* hand-off (_queue_music), the video lookup and the fork of the music unit.
motion_handle(w) ==
  /\ w \in MotionWorkers
  /\ wk[w].pc = "handle"
  /\ LET r == wk[w].rid
     IN \/ /\ Deleted(w)
           /\ wk' = [wk EXCEPT ![w] = Raise(w, "deleted", req[r].status)]
           /\ UNCHANGED <<req, th, claimers>>
        \/ /\ ~Deleted(w)
           /\ req[r].music_only
           /\ lock[r] = 0
           /\ req' = [req EXCEPT ![r].skip_music = FALSE, ![r].music_only = TRUE,
                                 ![r].status = "queued_music"]
           /\ claimers' = [claimers EXCEPT ![r] = {}]
           /\ wk' = [wk EXCEPT ![w].pc = "final_check", ![w].loaded = "expired"]
           /\ UNCHANGED th
        \/ /\ ~Deleted(w)
           /\ ~req[r].music_only
           /\ req[r].video_id = 0
           /\ wk' = [wk EXCEPT ![w] = Raise(w, "video not found", req[r].status)]
           /\ UNCHANGED <<req, th, claimers>>
        \/ /\ ~Deleted(w)
           /\ ~req[r].music_only
           /\ req[r].video_id /= 0
           /\ IF should_run_music(r)
              THEN /\ FreeSlots /= {}
                   /\ LET t == CHOOSE t \in FreeSlots : \A u \in FreeSlots : t <= u
                      IN /\ th' = [th EXCEPT ![t] = [FreeThread EXCEPT !.pc = "start",
                                                                       !.rid = r,
                                                                       !.owner = w]]
                         /\ wk' = [wk EXCEPT ![w].pc = "dl", ![w].mt = t,
                                             ![w].loaded = req[r].status]
              ELSE /\ wk' = [wk EXCEPT ![w].pc = "dl", ![w].loaded = req[r].status]
                   /\ UNCHANGED th
           /\ UNCHANGED <<req, claimers>>
  /\ UNCHANGED <<now, job, res, lock, api, calls, last_read, sse, ms, resp, stale_minutes>>

\* One checkpoint of the primary sub-task: _abort_if_deleted, then set_job
\* with the stage message and progress, then the stage's external call, which
\* succeeds or raises.
Checkpoint(w, from, to, message, progress, canFail) ==
  /\ wk[w].pc = from
  /\ LET r == wk[w].rid
     IN \/ /\ Deleted(w)
           /\ wk' = [wk EXCEPT ![w] = Raise(w, "deleted", req[r].status)]
           /\ UNCHANGED job
        \/ /\ ~Deleted(w)
           /\ job' = set_job("worker", job, r, "running", "none", message, progress, "none")
           /\ \/ wk' = [wk EXCEPT ![w].pc = to, ![w].loaded = "expired"]
              \/ /\ canFail
                 /\ wk' = [wk EXCEPT ![w] = Raise(w, "error", "expired")]
  /\ UNCHANGED <<now, req, res, lock, th, api, calls, claimers, last_read, sse, ms, resp, stale_minutes>>

\* _run_dance lines 195-199 / _run_magic lines 253-257: download the video.
motion_download(w) ==
  /\ w \in MotionWorkers
  /\ Checkpoint(w, "dl", IF req[wk[w].rid].mode = "magic" THEN "analyze" ELSE "pre",
                IF req[wk[w].rid].mode = "magic" THEN "magic: downloading video"
                ELSE "motion: downloading video", 12, TRUE)

\* _run_dance lines 202-203 (the dance handler only).
motion_preprocess(w) ==
  /\ w \in MotionWorkers
  /\ Checkpoint(w, "pre", "analyze", "motion: preprocessing", 22, FALSE)

\* _run_dance line 204 / _run_magic lines 262-263: publish "analyzing".  The
\* dance handler re-checks nothing here; the magic handler checks deleted.
motion_analyze(w) ==
  /\ w \in MotionWorkers
  /\ wk[w].pc = "analyze"
  /\ LET r == wk[w].rid
     IN IF req[r].mode = "magic" /\ Deleted(w)
        THEN /\ wk' = [wk EXCEPT ![w] = Raise(w, "deleted", req[r].status)]
             /\ UNCHANGED job
        ELSE /\ job' = set_job("worker", job, r, "running", "none",
                             IF req[r].mode = "magic" THEN "magic: analyzing"
                             ELSE "motion: analyzing", 45, "none")
             /\ wk' = [wk EXCEPT ![w].pc = "engine", ![w].loaded = "expired"]
  /\ UNCHANGED <<now, req, res, lock, th, api, calls, claimers, last_read, sse, ms, resp, stale_minutes>>

\* The external engine (subprocess.run): exit 0, or a non-zero exit, which
\* publishes the log excerpt and raises (lines 207-211 / 269-273).
motion_engine(w) ==
  /\ w \in MotionWorkers
  /\ wk[w].pc = "engine"
  /\ \/ /\ wk' = [wk EXCEPT ![w].pc = "upload"]
        /\ UNCHANGED job
     \/ /\ job' = set_job("worker", job, wk[w].rid, "running", "none", "none", NoVal, "log")
        /\ wk' = [wk EXCEPT ![w] = Raise(w, "log", "expired")]
  /\ UNCHANGED <<now, req, res, lock, th, api, calls, claimers, last_read, sse, ms, resp, stale_minutes>>


\* The write of the primary's artifact key (lines 218-223 / 280-285) through
\* the row object the session found at the query: an INSERT when the query
\* found none (IntegrityError if the row exists by now: request_id is unique),
\* an UPDATE otherwise (StaleDataError if the row is gone by now).
ResultWriteFails(r, seen) == (seen /= res[r].exists)

WritePrimaryKey(r) ==
  IF req[r].mode = "magic"
  THEN [res EXCEPT ![r].exists = TRUE, ![r].magic_json_s3_key = TRUE]
  ELSE [res EXCEPT ![r].exists = TRUE, ![r].motion_json_s3_key = TRUE]

\* Lines 213-218 / 275-280: deleted check, publish, upload, query the result row.
motion_upload(w) ==
  /\ w \in MotionWorkers
  /\ wk[w].pc = "upload"
  /\ LET r == wk[w].rid
     IN \/ /\ Deleted(w)
           /\ wk' = [wk EXCEPT ![w] = Raise(w, "deleted", req[r].status)]
           /\ UNCHANGED job
        \/ /\ ~Deleted(w)
           /\ job' = set_job("worker", job, r, "running", "none",
                             IF req[r].mode = "magic" THEN "magic: uploading results"
                             ELSE "motion: uploading results", 70, "none")
           /\ \/ wk' = [wk EXCEPT ![w].pc = "result", ![w].loaded = "expired",
                                  ![w].res_seen = res[r].exists]
              \/ wk' = [wk EXCEPT ![w] = Raise(w, "error", "expired")]
  /\ UNCHANGED <<now, req, res, lock, th, api, calls, claimers, last_read, sse, ms, resp, stale_minutes>>

\* Lines 219-223 / 281-285: the commit of the artifact key.
motion_result(w) ==
  /\ w \in MotionWorkers
  /\ wk[w].pc = "result"
  /\ LET r == wk[w].rid
     IN IF ResultWriteFails(r, wk[w].res_seen)
        THEN /\ wk' = [wk EXCEPT ![w] = Raise(w, "error", "expired")]
             /\ UNCHANGED res
        ELSE /\ res' = WritePrimaryKey(r)
             /\ wk' = [wk EXCEPT ![w].pc = "join", ![w].loaded = "expired"]
  /\ UNCHANGED <<now, req, job, lock, th, api, calls, claimers, last_read, sse, ms, resp, stale_minutes>>

\* Lines 225-229 / 287-291: publish 0.85; with a forked thread, join it next.
motion_publish_done(w) ==
  /\ w \in MotionWorkers
  /\ wk[w].pc = "join"
  /\ LET r == wk[w].rid
     IN IF wk[w].mt /= 0
        THEN /\ job' = set_job("worker", job, r, "running", "none",
                               IF req[r].mode = "magic" THEN "magic done (waiting music)"
                               ELSE "motion done (waiting music)", 85, "none")
             /\ wk' = [wk EXCEPT ![w].pc = "joining", ![w].loaded = "expired"]
        ELSE /\ job' = set_job("worker", job, r, "running", "none",
                               IF req[r].mode = "magic" THEN "magic: finalizing"
                               ELSE "motion: finalizing", 85, "none")
             /\ wk' = [wk EXCEPT ![w].pc = "score", ![w].loaded = "expired"]
  /\ UNCHANGED <<now, req, res, lock, th, api, calls, claimers, last_read, sse, ms, resp, stale_minutes>>

\* music_thread.join() (lines 227 / 289): returns once the thread has ended.
motion_join(w) ==
  /\ w \in MotionWorkers
  /\ wk[w].pc = "joining"
  /\ th[wk[w].mt].pc = "done"
  /\ wk' = [wk EXCEPT ![w].pc = "score"]
  /\ UNCHANGED <<now, req, job, res, lock, th, api, calls, claimers, last_read, sse, ms, resp, stale_minutes>>

\* _compute_match_if_ready, lines 296-312: nothing to do without a result
\* row, with a score already stored, or with a timeline missing; otherwise
\* the two downloads (outside the try: a failure raises) and set_job 0.92.
ReadyToScore(r) ==
  /\ res[r].exists
  /\ res[r].match_score = "null"
  /\ (res[r].motion_json_s3_key \/ res[r].magic_json_s3_key)
  /\ res[r].music_json_s3_key

\* str(exc) of a download of a timeline that raises (lines 307-310).
ScoringError == "scoring: download failed"

compute_match_if_ready(w) ==
  /\ w \in MotionWorkers
  /\ wk[w].pc = "score"
  /\ LET r == wk[w].rid
     IN IF ~ReadyToScore(r)
        THEN /\ wk' = [wk EXCEPT ![w].pc = "final_check"]
             /\ UNCHANGED <<job, res>>
        ELSE \/ /\ wk' = [wk EXCEPT ![w] = Raise(w, ScoringError, "expired")]
                /\ res' = [res EXCEPT ![r].score_raised = TRUE]
                /\ UNCHANGED job
             \/ /\ job' = set_job("worker", job, r, "running", "none",
                                  "analysis: scoring match", 92, "none")
                /\ wk' = [wk EXCEPT ![w].pc = "score_commit"]
                /\ UNCHANGED res
  /\ UNCHANGED <<now, req, lock, th, api, calls, claimers, last_read, sse, ms, resp, stale_minutes>>

\* Lines 313-325: parse, compute_match_score, store the score, publish 0.95;
\* any exception in there is logged and swallowed.
store_match_score(w) ==
  /\ wk[w].pc = "score_commit"
  /\ LET r == wk[w].rid
     IN \/ /\ res[r].exists
           /\ res' = [res EXCEPT ![r].match_score = "score",
                                 ![r].score_writes = res[r].score_writes + 1]
           /\ job' = set_job("worker", job, r, "running", "none",
                             "analysis: scoring done", 95, "none")
        \/ /\ res' = [res EXCEPT ![r].score_raised = res[r].exists]
           /\ UNCHANGED job
  /\ wk' = [wk EXCEPT ![w].pc = IF w \in MotionWorkers THEN "final_check"
                                ELSE "params",
                      ![w].loaded = "expired"]
  /\ UNCHANGED <<now, req, lock, th, api, calls, claimers, last_read, sse, ms, resp, stale_minutes>>

\* ------------------------------------------------- _tick: after the handler
\* Line 123-125: req.status is re-read (the session expired it at the last
\* commit); a row in queued_music gets LiveStatus queued and the tick ends.
tick_check_handoff(w) ==
  /\ wk[w].pc = "final_check"
  /\ LET r == wk[w].rid
         cur == IF wk[w].loaded = "expired" THEN req[r].status ELSE wk[w].loaded
     IN IF cur = "queued_music"
        THEN /\ job' = set_job("worker", job, r, "queued", "none", "music: queued", 5, "none")
             /\ wk' = [wk EXCEPT ![w] = IdleWorker]
        ELSE /\ wk' = [wk EXCEPT ![w].pc = "final_commit", ![w].loaded = cur]
             /\ UNCHANGED job
  /\ UNCHANGED <<now, req, res, lock, th, api, calls, claimers, last_read, sse, ms, resp, stale_minutes>>

\* Lines 127-129: status done, finished_at, commit.
tick_finalize(w) ==
  /\ wk[w].pc = "final_commit"
  /\ LET r == wk[w].rid
     IN /\ lock[r] = 0
        /\ req' = [req EXCEPT ![r].status = WriteStatus(w, r, "done"),
                              ![r].finished_at = now]
  /\ wk' = [wk EXCEPT ![w].pc = "final_pub", ![w].loaded = "expired"]
  /\ UNCHANGED <<now, job, res, lock, th, api, calls, claimers, last_read, sse, ms, resp, stale_minutes>>

\* Line 130.
tick_publish_done(w) ==
  /\ wk[w].pc = "final_pub"
  /\ job' = set_job("worker", job, wk[w].rid, "done", "none", "completed", 100, "none")
  /\ wk' = [wk EXCEPT ![w] = IdleWorker]
  /\ UNCHANGED <<now, req, res, lock, th, api, calls, claimers, last_read, sse, ms, resp, stale_minutes>>

\* An except branch that also drops what the run has stored in Result.
tick_fail_reset(w) ==
  /\ wk[w].pc = "except"
  /\ LET r == wk[w].rid
     IN /\ lock[r] = 0
        /\ req' = [req EXCEPT ![r].status = WriteStatus(w, r, "failed"),
                              ![r].error_message = wk[w].exc,
                              ![r].finished_at = now]
        /\ res' = [res EXCEPT ![r] = NoResult]
  /\ wk' = [wk EXCEPT ![w].pc = "except_pub", ![w].loaded = "expired"]
  /\ UNCHANGED <<now, job, lock, th, api, calls, claimers, last_read, sse, ms, resp, stale_minutes>>

\* Lines 131-137: the except branch: status failed, the message, finished_at.
tick_fail(w) ==
  /\ wk[w].pc = "except"
  /\ LET r == wk[w].rid
     IN /\ lock[r] = 0
        /\ req' = [req EXCEPT ![r].status = WriteStatus(w, r, "failed"),
                              ![r].error_message = wk[w].exc,
                              ![r].finished_at = now]
  /\ wk' = [wk EXCEPT ![w].pc = "except_pub", ![w].loaded = "expired"]
  /\ UNCHANGED <<now, job, res, lock, th, api, calls, claimers, last_read, sse, ms, resp, stale_minutes>>

\* The same, but the exception ends the thread of the poll loop.
tick_publish_failed_exit(w) ==
  /\ wk[w].pc = "except_pub"
  /\ job' = set_job("worker", job, wk[w].rid, "failed", wk[w].exc, "failed", 100, wk[w].exc)
  /\ wk' = [wk EXCEPT ![w].pc = "dead"]
  /\ UNCHANGED <<now, req, res, lock, th, api, calls, claimers, last_read, sse, ms, resp, stale_minutes>>

\* Lines 138-139: publish failed with the message and the log excerpt.
tick_publish_failed(w) ==
  /\ wk[w].pc = "except_pub"
  /\ job' = set_job("worker", job, wk[w].rid, "failed", wk[w].exc, "failed", 100, wk[w].exc)
  /\ wk' = [wk EXCEPT ![w] = IdleWorker]
  /\ UNCHANGED <<now, req, res, lock, th, api, calls, claimers, last_read, sse, ms, resp, stale_minutes>>


\* ------------------------------------------- music worker: _handle_request
\* Lines 499-526, 563-564: deleted check, then the audio download, or the
\* video download when the request has no audio, or a raise with neither.
music_handle(w) ==
  /\ w \in MusicWorkers
  /\ wk[w].pc = "handle"
  /\ LET r == wk[w].rid
     IN \/ /\ Deleted(w)
           /\ wk' = [wk EXCEPT ![w] = Raise(w, "deleted", req[r].status)]
           /\ UNCHANGED job
        \/ /\ ~Deleted(w)
           /\ req[r].audio_id = 0 /\ req[r].video_id = 0
           /\ wk' = [wk EXCEPT ![w] = Raise(w, "audio or video not found", req[r].status)]
           /\ UNCHANGED job
        \/ /\ ~Deleted(w)
           /\ req[r].audio_id /= 0 \/ req[r].video_id /= 0
           /\ job' = set_job("worker", job, r, "running", "none",
                             IF req[r].audio_id /= 0 THEN "music: downloading audio"
                             ELSE "music: downloading video", 12, "none")
           /\ \/ wk' = [wk EXCEPT ![w].pc = IF req[r].audio_id /= 0 THEN "prep"
                                            ELSE "extract",
                                  ![w].loaded = "expired"]
              \/ wk' = [wk EXCEPT ![w] = Raise(w, "error", "expired")]
  /\ UNCHANGED <<now, req, res, lock, th, api, calls, claimers, last_read, sse, ms, resp, stale_minutes>>

\* Lines 528-562: extract the audio with ffmpeg; with extract_audio set the
\* extracted file becomes the request's audio.
music_extract(w) ==
  /\ w \in MusicWorkers
  /\ wk[w].pc = "extract"
  /\ LET r == wk[w].rid
     IN \/ /\ Deleted(w)
           /\ wk' = [wk EXCEPT ![w] = Raise(w, "deleted", req[r].status)]
           /\ UNCHANGED <<job, req>>
        \/ /\ ~Deleted(w)
           /\ job' = set_job("worker",
                             set_job("worker", job, r, "running", "none",
                                     "music: extracting audio", 26, "none"),
                             r, "running", "none", "none", NoVal, "log")
           /\ wk' = [wk EXCEPT ![w] = Raise(w, "log", "expired")]
           /\ UNCHANGED req
        \/ /\ ~Deleted(w)
           /\ job' = set_job("worker", job, r, "running", "none",
                             "music: extracting audio", 26, "none")
           /\ IF req[r].audio_id = 0 /\ req[r].extract_audio
              THEN /\ lock[r] = 0
                   /\ req' = [req EXCEPT ![r].audio_id = OwnAudio(req[r].user_id)]
              ELSE UNCHANGED req
           /\ wk' = [wk EXCEPT ![w].pc = "prep", ![w].loaded = "expired"]
  /\ UNCHANGED <<now, res, lock, th, api, calls, claimers, last_read, sse, ms, resp, stale_minutes>>

\* Lines 566-567.
music_prepare(w) ==
  /\ w \in MusicWorkers
  /\ Checkpoint(w, "prep", "stage", "music: preparing pipeline", 35, FALSE)

\* run_music_analysis reports its stages through progress_cb (_music_progress).
\* The drum_bands and bass stages run only when the stem file exists.
MusicStages ==
  << [message |-> "music: separating stems",     progress |-> 42],
     [message |-> "music: splitting drum bands", progress |-> 50],
     [message |-> "music: detecting onsets",     progress |-> 62],
     [message |-> "music: selecting keypoints",  progress |-> 72],
     [message |-> "music: merging textures",     progress |-> 80],
     [message |-> "music: analyzing bass",       progress |-> 86],
     [message |-> "music: building json",        progress |-> 92] >>

OptionalStages == {2, 6}

NextStages(s) ==
  {i \in 1..Len(MusicStages) :
     \/ i = s + 1
     \/ i = s + 2 /\ (s + 1) \in OptionalStages}

\* Lines 570-589: one stage of the engine, its return after the last stage,
\* or an exception out of it.
music_engine(w) ==
  /\ w \in MusicWorkers
  /\ wk[w].pc = "stage"
  /\ LET r == wk[w].rid
     IN \/ \E i \in NextStages(wk[w].stage) :
             /\ job' = set_job("worker", job, r, "running", "none", MusicStages[i].message,
                               MusicStages[i].progress, "none")
             /\ wk' = [wk EXCEPT ![w].stage = i]
        \/ /\ wk[w].stage = Len(MusicStages)
           /\ wk' = [wk EXCEPT ![w].pc = "mupload"]
           /\ UNCHANGED job
        \/ /\ wk' = [wk EXCEPT ![w] = Raise(w, "error", "expired")]
           /\ UNCHANGED job
  /\ UNCHANGED <<now, req, res, lock, th, api, calls, claimers, last_read, sse, ms, resp, stale_minutes>>

\* Lines 591-597: deleted check, publish 0.95, upload, query the result row.
music_upload(w) ==
  /\ w \in MusicWorkers
  /\ wk[w].pc = "mupload"
  /\ LET r == wk[w].rid
     IN \/ /\ Deleted(w)
           /\ wk' = [wk EXCEPT ![w] = Raise(w, "deleted", req[r].status)]
           /\ UNCHANGED job
        \/ /\ ~Deleted(w)
           /\ job' = set_job("worker", job, r, "running", "none",
                             "music: uploading results", 95, "none")
           /\ \/ wk' = [wk EXCEPT ![w].pc = "mresult", ![w].loaded = "expired",
                                  ![w].res_seen = res[r].exists]
              \/ wk' = [wk EXCEPT ![w] = Raise(w, "error", "expired")]
  /\ UNCHANGED <<now, req, res, lock, th, api, calls, claimers, last_read, sse, ms, resp, stale_minutes>>

\* Lines 598-612: commit the music key; go on to score when the row holds a
\* motion or magic timeline.
music_result(w) ==
  /\ w \in MusicWorkers
  /\ wk[w].pc = "mresult"
  /\ LET r == wk[w].rid
     IN IF ResultWriteFails(r, wk[w].res_seen)
        THEN /\ wk' = [wk EXCEPT ![w] = Raise(w, "error", "expired")]
             /\ UNCHANGED res
        ELSE /\ res' = [res EXCEPT ![r].exists = TRUE, ![r].music_json_s3_key = TRUE]
             /\ wk' = [wk EXCEPT ![w].pc =
                          IF res[r].motion_json_s3_key \/ res[r].magic_json_s3_key
                          THEN "mscore" ELSE "params",
                       ![w].loaded = "expired"]
  /\ UNCHANGED <<now, req, job, lock, th, api, calls, claimers, last_read, sse, ms, resp, stale_minutes>>

\* Lines 613-624: download the motion timeline and publish 0.92; a failure
\* here is swallowed (the try of lines 613-631).
music_score(w) ==
  /\ w \in MusicWorkers
  /\ wk[w].pc = "mscore"
  /\ \/ /\ job' = set_job("worker", job, wk[w].rid, "running", "none",
                          "analysis: scoring match", 92, "none")
        /\ wk' = [wk EXCEPT ![w].pc = "score_commit"]
        /\ UNCHANGED res
     \/ /\ wk' = [wk EXCEPT ![w].pc = "params"]
        /\ res' = [res EXCEPT ![wk[w].rid].score_raised = res[wk[w].rid].exists]
        /\ UNCHANGED job
  /\ UNCHANGED <<now, req, lock, th, api, calls, claimers, last_read, sse, ms, resp, stale_minutes>>

\* Lines 633-636: drop music_only from the parameter bag and commit.
music_params(w) ==
  /\ w \in MusicWorkers
  /\ wk[w].pc = "params"
  /\ LET r == wk[w].rid
     IN /\ lock[r] = 0
        /\ req' = [req EXCEPT ![r].music_only = FALSE]
  /\ wk' = [wk EXCEPT ![w].pc = "final_check", ![w].loaded = "expired"]
  /\ UNCHANGED <<now, job, res, lock, th, api, calls, claimers, last_read, sse, ms, resp, stale_minutes>>

\* ---------------------------------- the forked unit: _run_music_for_request
EndThread(t, outcome) == [th[t] EXCEPT !.pc = "done", !.outcome = outcome]

\* Lines 338-401: its own session; return when the music key is already
\* there or no input is available, else go on with the audio or extract it.
thread_start(t) ==
  /\ th[t].pc = "start"
  /\ LET r == th[t].rid
     IN \/ /\ res[r].exists /\ res[r].music_json_s3_key
           /\ th' = [th EXCEPT ![t] = EndThread(t, "skipped")]
        \/ /\ ~(res[r].exists /\ res[r].music_json_s3_key)
           /\ IF req[r].audio_id /= 0
              THEN th' = [th EXCEPT ![t].pc = "run", ![t].res_seen = res[r].exists]
              ELSE IF req[r].extract_audio /\ req[r].video_id /= 0
              THEN th' = [th EXCEPT ![t].pc = "extract", ![t].res_seen = res[r].exists]
              ELSE th' = [th EXCEPT ![t] = EndThread(t, "skipped")]
  /\ UNCHANGED <<now, req, job, res, lock, wk, api, calls, claimers, last_read, sse, ms, resp, stale_minutes>>

\* Lines 374-419: ffmpeg fails (return), or the extracted audio is stored and
\* becomes the request's audio.
thread_extract(t) ==
  /\ th[t].pc = "extract"
  /\ LET r == th[t].rid
     IN \/ /\ th' = [th EXCEPT ![t] = EndThread(t, "failed")]
           /\ UNCHANGED req
        \/ /\ lock[r] = 0
           /\ req' = [req EXCEPT ![r].audio_id = OwnAudio(req[r].user_id)]
           /\ th' = [th EXCEPT ![t].pc = "run"]
  /\ UNCHANGED <<now, job, res, lock, wk, api, calls, claimers, last_read, sse, ms, resp, stale_minutes>>

\* Lines 372-373, 424-430: download, run_music_analysis, uploads; an
\* exception in any of them is caught and logged (lines 452-453).
thread_run(t) ==
  /\ th[t].pc = "run"
  /\ \/ th' = [th EXCEPT ![t].pc = "write"]
     \/ th' = [th EXCEPT ![t] = EndThread(t, "failed")]
  /\ UNCHANGED <<now, req, job, res, lock, wk, api, calls, claimers, last_read, sse, ms, resp, stale_minutes>>

\* Lines 432-450: insert the result row when the first query found none (on
\* IntegrityError: rollback and re-query), then store the music key; an
\* UPDATE of a row that is gone raises and is caught.
thread_write(t) ==
  /\ th[t].pc = "write"
  /\ LET r == th[t].rid
     IN IF th[t].res_seen /\ ~res[r].exists
        THEN /\ th' = [th EXCEPT ![t] = EndThread(t, "failed")]
             /\ UNCHANGED res
        ELSE /\ res' = [res EXCEPT ![r].exists = TRUE, ![r].music_json_s3_key = TRUE]
             /\ th' = [th EXCEPT ![t] = EndThread(t, "ok")]
  /\ UNCHANGED <<now, req, job, lock, wk, api, calls, claimers, last_read, sse, ms, resp, stale_minutes>>


\* A worker process dies: its transaction rolls back (the row lock goes), its
\* daemon threads die with it, and nothing of its tick runs any more.
worker_crash(w) ==
  /\ wk[w].pc \notin {"idle", "dead"}
  /\ wk' = [wk EXCEPT ![w].pc = "dead"]
  /\ lock' = [r \in Requests |-> IF lock[r] = w THEN 0 ELSE lock[r]]
  /\ th' = [t \in Threads |->
              IF th[t].owner = w /\ th[t].pc \notin {"free", "done"}
              THEN EndThread(t, "killed") ELSE th[t]]
  /\ UNCHANGED <<now, req, job, res, api, calls, claimers, last_read, sse, ms, resp, stale_minutes>>

\* ----------------------------------------------------------- API: services
\* An API call commits, and publishes its LiveStatus in a later transaction;
\* `api` holds the publish that is still to come.
Publish(r, status, error, message, progress) ==
  [op |-> "publish", rid |-> r, status |-> status, error |-> error,
   message |-> message, progress |-> progress, log |-> "none"]

\* The set_job call that ends an API call.
api_publish ==
  /\ api.op = "publish"
  /\ job' = set_job("api", job, api.rid, api.status, api.error, api.message,
                    api.progress, api.log)
  /\ api' = NoCall
  /\ UNCHANGED <<now, req, res, lock, wk, th, calls, claimers, last_read, sse, ms, resp, stale_minutes>>

CreateInputs ==
  [user_id : Users, video_id : MediaRefs, audio_id : MediaRefs, mode : Modes,
   music_only : BOOLEAN, extract_audio : BOOLEAN, skip_music : BOOLEAN]

\* not payload.video_id and not payload.audio_id (line 47), but a submission
\* that asks for music only is let through.
NoMediaUnlessMusicOnly(p) == p.video_id = 0 /\ p.audio_id = 0 /\ ~p.music_only

\* not payload.video_id and not payload.audio_id (line 47).
NoMedia(p) == p.video_id = 0 /\ p.audio_id = 0

\* The checks of create_analysis_request, lines 47-68.
CreateResponse(p) ==
  IF NoMedia(p) THEN Http(400, "video or audio is required")
  ELSE LET v == IF p.video_id /= 0
                THEN require_owned_media(p.user_id, p.video_id, "video",
                                         "video media not found",
                                         "video must belong to you")
                ELSE Ok
           a == IF p.audio_id /= 0
                THEN require_owned_media(p.user_id, p.audio_id, "audio",
                                         "audio media not found",
                                         "audio must belong to you")
                ELSE Ok
       IN IF v /= Ok THEN v ELSE a

\* Every submission starts in queued.
InitialStatusQueued(p) == "queued"

\* Lines 71-75: a submission without a video goes to the music class.
InitialStatus(p) == IF p.video_id = 0 THEN "queued_music" ELSE "queued"

\* create_analysis_request, lines 46-93.
create_analysis_request(r, p) ==
  /\ api.op = "idle"
  /\ ~req[r].exists
  /\ \A q \in Requests : q < r => req[q].exists
  /\ resp' = [op |-> "create_analysis_request", code |-> CreateResponse(p).code,
              detail |-> CreateResponse(p).detail]
  /\ IF CreateResponse(p) /= Ok
     THEN UNCHANGED <<req, claimers, api>>
     ELSE /\ req' = [req EXCEPT ![r] =
               [NoRequest EXCEPT
                  !.exists = TRUE,
                  !.user_id = p.user_id,
                  !.video_id = p.video_id,
                  !.audio_id = p.audio_id,
                  !.mode = p.mode,
                  !.extract_audio = p.extract_audio,
                  !.music_only = (p.music_only \/ p.video_id = 0),
                  !.skip_music = \/ p.skip_music
                                 \/ p.video_id /= 0 /\ p.audio_id = 0 /\ ~p.extract_audio,
                  !.status = InitialStatus(p)]]
          /\ claimers' = [claimers EXCEPT ![r] = {}]
          /\ api' = Publish(r, "queued", "none", "none", NoVal)
  /\ UNCHANGED <<now, job, res, lock, wk, th, calls, last_read, sse, ms, stale_minutes>>

\* The stale test of get_analysis_status._mark_stale_running, lines 105-119.
\* job.get("updated_at") is None (get_job returns no such key), so the time
\* compared is req.started_at.
JobGet(j, key, default) == IF key \in DOMAIN j THEN j[key] ELSE default

\* The stale test without the `<= 0` switch.
IsStaleAlways(r) ==
  LET j == get_job("api", r)
      job_status == IF JobGet(j, "status", "none") /= "none" THEN j.status
                    ELSE req[r].status
      updated_at == IF JobGet(j, "updated_at", NoVal) /= NoVal THEN j.updated_at
                    ELSE req[r].started_at
  IN /\ job_status = "running"
     /\ updated_at /= NoVal
     /\ updated_at < now - stale_minutes

IsStale(r) ==
  LET j == get_job("api", r)
      job_status == IF JobGet(j, "status", "none") /= "none" THEN j.status
                    ELSE req[r].status
      updated_at == IF JobGet(j, "updated_at", NoVal) /= NoVal THEN j.updated_at
                    ELSE req[r].started_at
  IN /\ stale_minutes > 0
     /\ job_status = "running"
     /\ updated_at /= NoVal
     /\ updated_at < now - stale_minutes

StalledMessage == "analysis stalled; please retry"

\* What get_analysis_status returns (lines 133-146).
StatusResponse(r) ==
  LET j == get_job("api", r)
  IN IF IsStale(r)
     THEN [status |-> "failed", error_message |-> StalledMessage,
           message |-> "stalled", progress |-> 100, log |-> JobGet(j, "log", "none")]
     ELSE [status |-> JobGet(j, "status", req[r].status),
           error_message |-> IF JobGet(j, "error", "none") /= "none" THEN j.error
                             ELSE req[r].error_message,
           message |-> JobGet(j, "message", "none"),
           progress |-> JobGet(j, "progress", NoVal),
           log |-> JobGet(j, "log", "none")]

\* LiveStatus says running and was last updated longer ago than the threshold.
LiveStale(r) ==
  /\ stale_minutes > 0
  /\ job[r].exists
  /\ job[r].status = "running"
  /\ job[r].updated_at < now - stale_minutes

\* LiveStatus says running and was updated less than the threshold ago.
LiveFresh(r) ==
  /\ job[r].exists
  /\ job[r].status = "running"
  /\ job[r].updated_at > now - stale_minutes

\* get_analysis_status, lines 96-146, for a request that is there and not
\* deleted: a read; a stale running request is failed on the way (commit,
\* then set_job).
StatusRead(r) ==
  /\ api.op = "idle"
  /\ req[r].exists
  /\ ~req[r].is_deleted
  /\ IF IsStale(r)
     THEN /\ lock[r] = 0
          /\ req' = [req EXCEPT ![r].status = "failed",
                                ![r].error_message = StalledMessage,
                                ![r].finished_at = now]
          /\ api' = Publish(r, "failed", StalledMessage, "stalled", 100)
     ELSE UNCHANGED <<req, api>>
  /\ last_read' = [rid |-> r, status |-> StatusResponse(r).status,
                   error_message |-> StatusResponse(r).error_message,
                   live_stale |-> LiveStale(r), live_fresh |-> LiveFresh(r),
                   marked |-> IsStale(r)]
  /\ UNCHANGED <<now, job, res, lock, wk, th, calls, claimers, ms, resp, stale_minutes>>

\* GET /analysis/{id}/status.
get_analysis_status(r) ==
  /\ StatusRead(r)
  /\ UNCHANGED sse

\* GET /analysis/{id}/events: a client opens the stream (api.py:105-108).
events_open(r) ==
  /\ sse.state = "none"
  /\ sse' = [NoStream EXCEPT !.state = "open", !.rid = r]
  /\ UNCHANGED <<now, req, job, res, lock, wk, th, api, calls, claimers, last_read, ms, resp, stale_minutes>>

\* The payload built from the status read (api.py:126-133).
EventPayload(r) ==
  LET data == StatusResponse(r)
  IN [id |-> r, status |-> data.status, message |-> data.message,
      progress |-> data.progress, error_message |-> data.error_message,
      log |-> data.log]

\* A stream that ends on done only.
TerminalDoneOnly(status) == status = "done"

\* payload["status"] in ("done", "failed") (api.py:139).
Terminal(status) == status \in {"done", "failed"}

\* The event of the 404 branch (api.py:115-123).
NotFoundPayload(r) ==
  [NoPayload EXCEPT !.id = r, !.status = "failed", !.error_message = "not found"]

\* One poll of event_stream (api.py:110-144): a 404 of the status read (no
\* such request, or a deleted one) yields failed / "not found" and ends the
\* stream; else the payload is yielded when it differs from the last one,
\* and the stream ends on done or failed.
analysis_events ==
  /\ sse.state = "open"
  /\ LET r == sse.rid
     IN IF ~req[r].exists \/ req[r].is_deleted
        THEN /\ sse' = [sse EXCEPT !.state = "closed", !.last = NotFoundPayload(r),
                                   !.emitted = TRUE]
             /\ UNCHANGED <<now, req, job, res, lock, wk, th, api, calls,
                            claimers, last_read, ms, resp, stale_minutes>>
        ELSE /\ StatusRead(r)
             /\ sse' = [sse EXCEPT
                          !.state = IF Terminal(EventPayload(r).status)
                                    THEN "closed" ELSE "open",
                          !.last = EventPayload(r),
                          !.emitted = (EventPayload(r) /= sse.last)]

\* queue_motion_rerun, lines 441-472.
queue_motion_rerun(r) ==
  /\ api.op = "idle"
  /\ calls < MaxApiCalls
  /\ req[r].exists
  /\ req[r].video_id /= 0
  /\ lock[r] = 0
  /\ req' = [req EXCEPT ![r].music_only = FALSE,
                        ![r].skip_music = (req[r].audio_id = 0),
                        ![r].status = "queued",
                        ![r].error_message = "none",
                        ![r].finished_at = NoVal]
  /\ res' = [res EXCEPT ![r].motion_json_s3_key = FALSE,
                        ![r].magic_json_s3_key = FALSE,
                        ![r].match_score = "null",
                        ![r].score_writes = 0,
                        ![r].score_raised = FALSE]
  /\ claimers' = [claimers EXCEPT ![r] = {}]
  /\ api' = Publish(r, "queued", "none", "motion rerun queued", 0)
  /\ calls' = calls + 1
  /\ UNCHANGED <<now, job, lock, wk, th, last_read, sse, ms, resp, stale_minutes>>

\* queue_music_rerun, lines 475-494: drop the music key and the score, commit,
\* then call queue_music_only.
queue_music_rerun(r) ==
  /\ api.op = "idle"
  /\ calls < MaxApiCalls
  /\ req[r].exists
  /\ req[r].audio_id /= 0 \/ req[r].video_id /= 0
  /\ res' = [res EXCEPT ![r].music_json_s3_key = FALSE, ![r].match_score = "null",
                        ![r].score_writes = 0,
                        ![r].score_raised = FALSE]
  /\ api' = [NoCall EXCEPT !.op = "music_only", !.rid = r]
  /\ calls' = calls + 1
  /\ UNCHANGED <<now, req, job, lock, wk, th, claimers, last_read, sse, ms, resp, stale_minutes>>

\* The commit of queue_music_only, lines 503-533 (400 without any media).
MusicOnlyCommit(r, audio) ==
  /\ lock[r] = 0
  /\ IF audio = 0 /\ req[r].audio_id = 0 /\ req[r].video_id = 0
     THEN /\ api' = NoCall
          /\ UNCHANGED <<req, claimers>>
     ELSE /\ req' = [req EXCEPT ![r].audio_id = IF audio /= 0 THEN audio
                                                ELSE req[r].audio_id,
                                ![r].skip_music = FALSE,
                                ![r].music_only = TRUE,
                                ![r].status = "queued_music",
                                ![r].error_message = "none"]
          /\ claimers' = [claimers EXCEPT ![r] = {}]
          /\ api' = Publish(r, "queued", "none", "music only queued", 0)

\* queue_music_only called by queue_music_rerun (line 494).
api_music_only ==
  /\ api.op = "music_only"
  /\ MusicOnlyCommit(api.rid, 0)
  /\ UNCHANGED <<now, job, res, lock, wk, th, calls, last_read, sse, ms, resp, stale_minutes>>

\* queue_music_only called by its endpoint, with or without a new audio.
queue_music_only(r, audio) ==
  /\ api.op = "idle"
  /\ calls < MaxApiCalls
  /\ req[r].exists
  /\ MusicOnlyCommit(r, audio)
  /\ calls' = calls + 1
  /\ UNCHANGED <<now, job, res, lock, wk, th, last_read, sse, ms, resp, stale_minutes>>

\* delete_analysis_request, lines 293-339: one transaction.
delete_analysis_request(r) ==
  /\ api.op = "idle"
  /\ req[r].exists
  /\ ~req[r].is_deleted
  /\ lock[r] = 0
  /\ res' = [res EXCEPT ![r] = NoResult]
  /\ job' = [job EXCEPT ![r] = [NoJob EXCEPT !.cache = job[r].cache]]
  /\ req' = [req EXCEPT ![r].is_deleted = TRUE,
                        ![r].status = "failed",
                        ![r].error_message = "deleted",
                        ![r].finished_at = now]
  /\ UNCHANGED <<now, lock, wk, th, api, calls, claimers, last_read, sse, ms, resp, stale_minutes>>

\* The request row a handler's query returns, None for an unknown id.
MissingRequest == MaxRequests + 1
RequestRefs == 1..MissingRequest
RequestRow(r) == IF r \in Requests THEN req[r] ELSE NoRequest

\* if not req: 404; if req.user_id != user_id: 404 (lines 239-243 and alike).
RequestGate(user_id, r) ==
  IF ~RequestRow(r).exists THEN Http(404, "not found")
  ELSE IF RequestRow(r).user_id /= user_id THEN Http(404, "not found")
  ELSE Ok

\* The checks of update_analysis_audio, lines 239-252.
UpdateAudioResponse(user_id, r, audio_id) ==
  IF RequestGate(user_id, r) /= Ok THEN RequestGate(user_id, r)
  ELSE require_owned_media(user_id, audio_id, "audio", "audio media not found",
                           "audio must belong to you")

\* The checks of update_analysis_video, lines 268-281.
UpdateVideoResponse(user_id, r, video_id) ==
  IF RequestGate(user_id, r) /= Ok THEN RequestGate(user_id, r)
  ELSE require_owned_media(user_id, video_id, "video", "video media not found",
                           "video must belong to you")

Respond(op, answer) == [op |-> op, code |-> answer.code, detail |-> answer.detail]

\* update_analysis_audio, lines 233-259.
update_analysis_audio(user_id, r, audio_id) ==
  /\ api.op = "idle"
  /\ r \in Requests => lock[r] = 0
  /\ resp' = Respond("update_analysis_audio", UpdateAudioResponse(user_id, r, audio_id))
  /\ IF UpdateAudioResponse(user_id, r, audio_id) /= Ok
     THEN UNCHANGED req
     ELSE req' = [req EXCEPT ![r].audio_id = audio_id, ![r].skip_music = FALSE]
  /\ UNCHANGED <<now, job, res, lock, wk, th, api, calls, claimers, last_read, sse, ms, stale_minutes>>

\* update_analysis_video, lines 262-290.
update_analysis_video(user_id, r, video_id) ==
  /\ api.op = "idle"
  /\ r \in Requests => lock[r] = 0
  /\ resp' = Respond("update_analysis_video", UpdateVideoResponse(user_id, r, video_id))
  /\ IF UpdateVideoResponse(user_id, r, video_id) /= Ok
     THEN UNCHANGED req
     ELSE req' = [req EXCEPT
            ![r].video_id = video_id,
            ![r].skip_music = IF req[r].audio_id = 0
                              THEN (req[r].skip_music \/ ~req[r].extract_audio)
                              ELSE req[r].skip_music,
            ![r].music_only = IF req[r].audio_id = 0 THEN FALSE
                              ELSE req[r].music_only]
  /\ UNCHANGED <<now, job, res, lock, wk, th, api, calls, claimers, last_read, sse, ms, stale_minutes>>

\* remove_analysis_audio, lines 342-386.
remove_analysis_audio(user_id, r) ==
  /\ api.op = "idle"
  /\ r \in Requests => lock[r] = 0
  /\ resp' = Respond("remove_analysis_audio", RequestGate(user_id, r))
  /\ IF RequestGate(user_id, r) /= Ok
     THEN UNCHANGED <<req, res>>
     ELSE /\ req' = [req EXCEPT
                 ![r].audio_id = 0,
                 ![r].music_only = FALSE,
                 ![r].skip_music = ~(req[r].video_id /= 0 /\ req[r].extract_audio)]
          /\ res' = IF res[r].exists
                    THEN [res EXCEPT ![r].music_json_s3_key = FALSE,
                                     ![r].match_score = "null",
                                     ![r].score_writes = 0,
                                     ![r].score_raised = FALSE]
                    ELSE res
  /\ UNCHANGED <<now, job, lock, wk, th, api, calls, claimers, last_read, sse, ms, stale_minutes>>

\* remove_analysis_video, lines 389-414.
remove_analysis_video(user_id, r) ==
  /\ api.op = "idle"
  /\ r \in Requests => lock[r] = 0
  /\ resp' = Respond("remove_analysis_video", RequestGate(user_id, r))
  /\ IF RequestGate(user_id, r) /= Ok
     THEN UNCHANGED <<req, res>>
     ELSE /\ req' = [req EXCEPT
                 ![r].video_id = 0,
                 ![r].music_only = (req[r].audio_id /= 0),
                 ![r].skip_music = FALSE]
          /\ res' = IF res[r].exists
                    THEN [res EXCEPT ![r].motion_json_s3_key = FALSE,
                                     ![r].magic_json_s3_key = FALSE,
                                     ![r].match_score = "null",
                                     ![r].score_writes = 0,
                                     ![r].score_raised = FALSE]
                    ELSE res
  /\ UNCHANGED <<now, job, lock, wk, th, api, calls, claimers, last_read, sse, ms, stale_minutes>>

\* update_analysis_status, lines 149-172 (POST /analysis/{id}/status).
UpdateStatusInputs == {"running"}

update_analysis_status(r, status) ==
  /\ api.op = "idle"
  /\ calls < MaxApiCalls
  /\ req[r].exists
  /\ lock[r] = 0
  /\ req' = [req EXCEPT ![r].status = status, ![r].error_message = "none"]
  /\ claimers' = [claimers EXCEPT ![r] =
                    IF status \in {"queued", "queued_music"} THEN {} ELSE claimers[r]]
  /\ api' = Publish(r, status, "none", "none", NoVal)
  /\ calls' = calls + 1
  /\ UNCHANGED <<now, job, res, lock, wk, th, last_read, sse, ms, resp, stale_minutes>>

\* ------------------------------------------------------------ next states
\* The steps of _tick that every worker class runs.
TickStep(w) ==
  \/ fetch_request(w)
  \/ tick_claim(w)
  \/ tick_publish_start(w)
  \/ tick_check_handoff(w)
  \/ tick_finalize(w)
  \/ tick_publish_done(w)
  \/ tick_fail(w)
  \/ tick_publish_failed(w)

\* MotionAnalysisWorker._handle_request.
MotionStep(w) ==
  \/ motion_handle(w)
  \/ motion_download(w)
  \/ motion_preprocess(w)
  \/ motion_analyze(w)
  \/ motion_engine(w)
  \/ motion_upload(w)
  \/ motion_result(w)
  \/ motion_publish_done(w)
  \/ compute_match_if_ready(w)

\* MusicAnalysisWorker._handle_request.
MusicStep(w) ==
  \/ music_handle(w)
  \/ music_prepare(w)
  \/ music_engine(w)
  \/ music_upload(w)
  \/ music_result(w)
  \/ music_params(w)

\* _run_music_for_request and the join on it.
ThreadStep(t) ==
  \/ thread_start(t)
  \/ thread_run(t)
  \/ thread_write(t)

\* The specifications below submit a single request; SpecQueue submits two.
OneRequest == {1}

\* Requests with a video and an audio (the primary forks the music unit),
\* with or without music_only in the parameter bag.
ForkInputs ==
  {p \in CreateInputs : p.user_id = 1 /\ p.video_id = OwnVideo(1)
                        /\ p.audio_id = OwnAudio(1) /\ ~p.extract_audio
                        /\ ~p.skip_music}

\* N workers of each class against one store, with the rerun operations.
NextClaim ==
  \/ \E w \in Workers : TickStep(w)
  \/ \E w \in MotionWorkers : MotionStep(w) \/ motion_join(w)
  \/ \E w \in MusicWorkers : MusicStep(w) \/ music_score(w)
  \/ \E w \in Workers : store_match_score(w)
  \/ \E t \in Threads : ThreadStep(t)
  \/ \E r \in OneRequest, p \in ForkInputs : create_analysis_request(r, p)
  \/ \E r \in Requests : queue_motion_rerun(r)
  \/ \E r \in Requests : queue_music_rerun(r)
  \/ \E r \in Requests : queue_music_only(r, 0)
  \/ api_music_only
  \/ api_publish

SpecClaim == Init /\ [][NextClaim]_vars

\* Requests with a video only (skip_music: no music unit).
VideoInputs ==
  {p \in CreateInputs : p.user_id = 1 /\ p.video_id = OwnVideo(1)
                        /\ p.audio_id = 0 /\ ~p.extract_audio
                        /\ ~p.music_only /\ ~p.skip_music}

\* One motion worker, the clock, the status read with its stale check.
NextStale ==
  \/ Tick
  \/ TickStep(1)
  \/ MotionStep(1)
  \/ worker_crash(1)
  \/ \E r \in OneRequest, p \in VideoInputs : create_analysis_request(r, p)
  \/ \E r \in Requests : get_analysis_status(r)
  \/ \E r \in Requests : queue_motion_rerun(r)
  \/ \E r \in Requests, st \in UpdateStatusInputs : update_analysis_status(r, st)
  \/ api_publish

SpecStale == Init /\ [][NextStale]_vars

\* The same, for every configuration of the threshold: off (negative or 0)
\* or on.
InitThreshold ==
  /\ InitRows
  /\ ms = NoScore
  /\ stale_minutes \in -1..StaleRunningMinutes

SpecThreshold == InitThreshold /\ [][NextStale]_vars


\* One run of each request: a motion worker, a music worker and the forked
\* unit, with no operation that queues the request again.
NextRun ==
  \/ TickStep(1) \/ MotionStep(1) \/ motion_join(1) \/ store_match_score(1)
  \/ \E w \in MusicWorkers : TickStep(w) \/ MusicStep(w)
  \/ \E t \in Threads : ThreadStep(t)
  \/ \E r \in OneRequest, p \in ForkInputs : create_analysis_request(r, p)
  \/ api_publish

SpecRun == Init /\ [][NextRun]_vars

\* Every worker thread keeps polling, and every engine and storage call of a
\* worker or of a forked unit returns.
FairRun ==
  /\ WF_vars(TickStep(1) \/ MotionStep(1) \/ motion_join(1) \/ store_match_score(1))
  /\ \A w \in MusicWorkers : WF_vars(TickStep(w) \/ MusicStep(w))
  /\ \A t \in Threads : WF_vars(ThreadStep(t))

SpecLive == Init /\ [][NextRun]_vars /\ FairRun

\* Deletion in mid-run: a motion worker, a music worker and the forked unit,
\* delete_analysis_request, the requeueing operations, and a client that
\* opens the event stream of a deleted request.
DeleteInputs == {p \in ForkInputs : ~p.music_only}

NextDelete ==
  \/ TickStep(1) \/ MotionStep(1) \/ motion_join(1) \/ store_match_score(1)
  \/ \E w \in MusicWorkers : TickStep(w) \/ MusicStep(w)
  \/ \E t \in Threads : ThreadStep(t)
  \/ \E r \in OneRequest, p \in DeleteInputs : create_analysis_request(r, p)
  \/ \E r \in Requests : delete_analysis_request(r)
  \/ \E r \in Requests : queue_motion_rerun(r)
  \/ \E r \in Requests : queue_music_rerun(r)
  \/ \E r \in Requests : queue_music_only(r, 0)
  \/ api_music_only
  \/ api_publish
  \/ \E r \in Requests : req[r].is_deleted /\ events_open(r)
  \/ analysis_events

SpecDelete == Init /\ [][NextDelete]_vars

\* ----------------------------------------------------------- scorer calls
\* A call of compute_match_score with the default sigmoid parameters.
scorer_call ==
  /\ ms.pc = "in"
  /\ ms' = [ms EXCEPT !.pc = "out",
                      !.out = compute_match_score(ms.music_json, ms.motion_json,
                                                  ms.tau, SigmoidK, SigmoidX0)]
  /\ UNCHANGED <<now, req, job, res, lock, wk, th, api, calls, claimers, last_read, sse,
               resp, stale_minutes>>

InitScorer ==
  /\ InitStore
  /\ \E mu \in MusicJsons, mo \in MotionJsons, tau \in TauSet :
       ms = [pc |-> "in", music_json |-> mu, motion_json |-> mo, tau |-> tau,
             out |-> NoOutcome]

NextScorer == scorer_call

SpecScorer == InitScorer /\ [][NextScorer]_vars


\* ------------------------------------------------------- media handlers
\* Two users submit requests and replace or remove their media.
NextMedia ==
  \/ \E r \in OneRequest, p \in CreateInputs : create_analysis_request(r, p)
  \/ api_publish
  \/ \E u \in Users, r \in RequestRefs, m \in MediaRefs \ {0} :
       update_analysis_audio(u, r, m)
  \/ \E u \in Users, r \in RequestRefs, m \in MediaRefs \ {0} :
       update_analysis_video(u, r, m)
  \/ \E u \in Users, r \in RequestRefs : remove_analysis_audio(u, r)
  \/ \E u \in Users, r \in RequestRefs : remove_analysis_video(u, r)

SpecMedia == Init /\ [][NextMedia]_vars

\* ------------------------------------------------------------ the queue
\* Two requests with a video only and the motion workers that poll for them.
NextQueue ==
  \/ \E w \in MotionWorkers : TickStep(w)
  \/ \E w \in MotionWorkers : MotionStep(w)
  \/ \E r \in Requests, p \in VideoInputs : create_analysis_request(r, p)
  \/ api_publish

SpecQueue == Init /\ [][NextQueue]_vars

\* The poll loop of a worker thread never stops: while not stop_event, tick
\* and sleep (lines 87-93), so a worker whose next step is possible takes it.
FairLoop == \A w \in MotionWorkers : WF_vars(TickStep(w) \/ MotionStep(w))

SpecLoop == Init /\ [][NextQueue]_vars /\ FairLoop

\* ------------------------------------------------------- the event stream
\* One request, one motion worker, deletion, and a client that opens the
\* event stream at any time and polls.
NextEvents ==
  \/ TickStep(1)
  \/ MotionStep(1)
  \/ \E r \in OneRequest, p \in VideoInputs : create_analysis_request(r, p)
  \/ api_publish
  \/ \E r \in OneRequest : delete_analysis_request(r)
  \/ \E r \in OneRequest : events_open(r)
  \/ analysis_events

SpecEvents == Init /\ [][NextEvents]_vars

\* ---------------------------------------------------------------- the fork
\* Submissions with a video, with or without an audio, extract_audio and
\* skip_music in the parameter bag; one motion worker and its forked unit.
SkipInputs ==
  {p \in CreateInputs : p.user_id = 1 /\ p.video_id = OwnVideo(1)
                        /\ p.audio_id \in {0, OwnAudio(1)} /\ ~p.music_only}

NextFork ==
  \/ TickStep(1) \/ MotionStep(1) \/ motion_join(1) \/ store_match_score(1)
  \/ \E t \in Threads : ThreadStep(t) \/ thread_extract(t)
  \/ \E r \in OneRequest, p \in SkipInputs : create_analysis_request(r, p)
  \/ api_publish

SpecFork == Init /\ [][NextFork]_vars

\* ------------------------------------------------- two classes, one request
\* A motion worker with its forked unit and a music worker; the client may
\* ask for a music-only run of the request at any time.
NextFinish ==
  \/ TickStep(1) \/ MotionStep(1) \/ motion_join(1) \/ store_match_score(1)
  \/ \E w \in MusicWorkers : TickStep(w) \/ MusicStep(w) \/ music_score(w)
  \/ \E w \in MusicWorkers : store_match_score(w)
  \/ \E t \in Threads : ThreadStep(t)
  \/ \E r \in OneRequest, p \in DeleteInputs : create_analysis_request(r, p)
  \/ \E r \in OneRequest : queue_music_only(r, 0)
  \/ api_publish

SpecFinish == Init /\ [][NextFinish]_vars

\* ------------------------------------------------------------------ claims
\* The positions of a worker inside _handle_request: after its claim and
\* before the tick finalizes or hands off.
HandlerPcs ==
  {"handle", "dl", "pre", "analyze", "engine", "upload", "result", "join",
   "joining", "score", "score_commit", "extract", "prep", "stage", "mupload",
   "mresult", "mscore", "params"}

Holders(r) == {w \in Workers : wk[w].rid = r /\ wk[w].pc \in HandlerPcs}

LiveThreads(r) ==
  {t \in Threads : th[t].rid = r /\ th[t].pc \in {"start", "extract", "run", "write"}}

\* C1: with N >= 2 workers ticking against the same store, a request is
\* flipped to running by at most one worker each time it is queued: the set
\* of workers that claimed it since it was last put in queued / queued_music
\* never has two members.
C1_NoDoubleClaim == \A r \in Requests : Cardinality(claimers[r]) <= 1

\* C1 witness: a request was queued again while a motion worker was still
\* processing it, and another motion worker is its single claimer since then.
C1_Witness ==
  \E r \in Requests : \E w1 \in MotionWorkers, w2 \in MotionWorkers :
    /\ w1 /= w2
    /\ claimers[r] = {w2}
    /\ wk[w1].rid = r /\ wk[w1].pc \in HandlerPcs
    /\ wk[w2].rid = r /\ wk[w2].pc = "start"

\* C2: at every moment at most one worker is between claiming a request and
\* finalizing it, also when rerun-motion, rerun-music or music-only is invoked
\* on the request while it is running.
C2_SingleHolder == \A r \in Requests : Cardinality(Holders(r)) <= 1

\* C7: a request whose forked music unit failed never ends in done: no worker
\* has written done for a request while the thread it forked for it failed.
C7_FailedUnitNeverDone ==
  \A w \in Workers :
    (wk[w].pc = "final_pub" /\ wk[w].mt /= 0 /\ req[wk[w].rid].status = "done")
      => th[wk[w].mt].outcome /= "failed"

\* C8: a worker that has forked a music unit writes done or failed in _tick
\* only after that unit has terminated.
C8_JoinBeforeFinalize ==
  \A w \in Workers :
    (wk[w].pc \in {"final_pub", "except_pub"} /\ wk[w].mt /= 0)
      => th[wk[w].mt].pc = "done"

\* C9: for each request at most two execution units (workers inside the
\* handler, forked music threads) are running at any time.
C9_AtMostTwoUnits ==
  \A r \in Requests : Cardinality(Holders(r)) + Cardinality(LiveThreads(r)) <= 2


\* A step of a worker tick, of any class.
WorkerAct ==
  \E w \in Workers :
    \/ TickStep(w) \/ MotionStep(w) \/ motion_join(w)
    \/ MusicStep(w) \/ music_score(w) \/ store_match_score(w)

\* A status read, the only caller of the stale monitor.
MonitorAct == \E r \in Requests : get_analysis_status(r)

AllowedTransitions ==
  {<<"queued", "running">>, <<"queued_music", "running">>,
   <<"running", "queued_music">>, <<"running", "done">>, <<"running", "failed">>}

\* C3: every change of Request.status made by a worker tick or by the stale
\* monitor is queued->running, queued_music->running, running->queued_music,
\* running->done or running->failed; a done or failed request is not changed
\* by them.
C3_WorkerTransitions ==
  [][(WorkerAct \/ MonitorAct) =>
       \A r \in Requests :
         \/ req'[r].status = req[r].status
         \/ <<req[r].status, req'[r].status>> \in AllowedTransitions]_vars

\* C4: a status read of a request whose LiveStatus is running and older than
\* the threshold fails the request (status failed, stalled message,
\* finished_at, failed published) and returns failed.
C4_StaleReadFails ==
  last_read.live_stale => (last_read.marked /\ last_read.status = "failed")

\* C5: a status read never fails a running request whose LiveStatus was
\* updated less than the threshold ago.
C5_FreshNotFailed ==
  last_read.live_fresh => (~last_read.marked /\ last_read.status = "running")

\* C6: after the stale monitor failed a request (its error message is the
\* stalled message; a rerun clears it), every status read returns failed.
C6_StaysFailed ==
  \A r \in Requests :
    (req[r].exists /\ ~req[r].is_deleted /\ req[r].error_message = StalledMessage)
      => StatusResponse(r).status = "failed"

\* C10: within one run (from the claim to done or failed, the hand-off to the
\* music worker included) the progress published to LiveStatus never goes
\* down.
C10_ProgressMonotone ==
  [][\A r \in Requests :
       (/\ job[r].exists /\ job'[r].exists
        /\ job[r].status \in {"queued", "running"}
        /\ job[r].progress /= NoVal /\ job'[r].progress /= NoVal) =>
         job'[r].progress >= job[r].progress]_vars


\* The positions at which the next step of a sub-task starts with
\* _abort_if_deleted.
CheckpointPcs == {"handle", "dl", "pre", "upload", "extract", "prep", "mupload"}

\* C11: when a request is deleted while a worker runs it, the sub-task's next
\* checkpoint raises "deleted" and publishes, uploads and writes nothing, and
\* no reader of the request's status is shown it as failed.
C11_DeletedMidRun ==
  /\ [][\A w \in Workers :
          (wk[w].pc \in CheckpointPcs /\ Deleted(w) /\ wk'[w] /= wk[w]) =>
            /\ wk'[w].pc = "except" /\ wk'[w].exc = "deleted"
            /\ job' = job /\ res' = res /\ req' = req]_vars
  /\ [](\A r \in Requests :
          (req[r].is_deleted /\ Holders(r) /= {}) =>
            ~(sse.rid = r /\ sse.emitted /\ sse.last.status = "failed"))

\* C12: a tick whose sub-task aborted with "deleted" writes nothing to the
\* Request and publishes no LiveStatus.
C12_DeletedIsNoOp ==
  [][\A w \in Workers :
       (wk[w].exc = "deleted" /\ wk'[w] /= wk[w]) =>
         (req' = req /\ job' = job)]_vars

\* C13: a deleted request is never claimed: no worker holds its row for a
\* claim and its status is never running, whatever requeueing operation was
\* invoked on it.
C13_DeletedNeverClaimed ==
  \A r \in Requests :
    req[r].is_deleted =>
      /\ req[r].status /= "running"
      /\ \A w \in Workers : ~(wk[w].pc = "claimed" /\ wk[w].rid = r)

\* C13 witness: a deleted request was put back in queued or queued_music
\* while a worker of the matching class is idle.
C13_Witness ==
  \E r \in Requests : \E w \in Workers :
    /\ req[r].is_deleted
    /\ req[r].status = WorkerFilter(w)
    /\ wk[w].pc = "idle"
    /\ lock[r] = 0


\* C14: a scoring invocation that finds match_score non-null writes nothing:
\* between two clearings of the score (rerun, removal of a media, delete) the
\* score of a request is written at most once.
C14_ScoreWrittenOnce == \A r \in Requests : res[r].score_writes <= 1

\* C15: a failure during match scoring never changes the request's outcome:
\* no tick raises, and no request is failed, with the scoring failure.
C15_ScoringFailureSwallowed ==
  /\ \A w \in Workers : wk[w].exc /= ScoringError
  /\ \A r \in Requests :
       req[r].status = "failed" => req[r].error_message /= ScoringError

\* The motion events as the scorer's contract names them: a hit weighs 1.0 at
\* its time, a hold 0.8 at its start time.
EventTime(item) == IF item.type = "hold" THEN item.t_start ELSE item.t
EventWeight(item) == IF item.type = "hold" THEN 8 ELSE 10
KeypointTimes(music_json) ==
  UNION {{music_json[b][j] : j \in 1..Len(music_json[b])} :
           b \in {"low", "mid", "high"}}

RECURSIVE SumOver(_, _)
SumOver(S, f) ==
  IF S = {} THEN 0
  ELSE LET i == CHOOSE j \in S : TRUE IN f[i] + SumOver(S \ {i}, f)

Delta(item, K) == MinOf({Abs(EventTime(item) - t) : t \in K})

\* Numerator and denominator of the weighted coverage of M by K within tau.
CoverageFormula(M, K, tau) ==
  LET near == {i \in 1..Len(M) : K # {} /\ Delta(M[i], K) <= tau}
      credit == [i \in near |-> Max(0, tau - Delta(M[i], K)) * EventWeight(M[i])]
      weight == [i \in 1..Len(M) |-> tau * EventWeight(M[i])]
  IN <<SumOver(near, credit), SumOver(1..Len(M), weight)>>

\* C16: for every motion event list, keypoint list and tau > 0 the coverage
\* that _weighted_coverage returns is the sum over the motion events within
\* tau of a keypoint of max(0, 1 - delta / tau) * weight, divided by the sum
\* of the weights (hit 1.0, hold 0.8 at its start time); it is 0 for an empty
\* motion list and always lies in [0, 1].
C16_WeightedCoverage ==
  ms.pc = "out" =>
    LET c == ms.out.motion_to_music
        f == CoverageFormula(ms.motion_json, KeypointTimes(ms.music_json), ms.tau)
    IN /\ c[2] > 0
       /\ 0 <= c[1]
       /\ c[1] <= c[2]
       /\ ms.motion_json = <<>> => c[1] = 0
       /\ ms.motion_json # <<>> => c[1] * f[2] = f[1] * c[2]

\* A hit and a hold were scored, one of them near a keypoint but not on it.
C16_Witness ==
  /\ ms.pc = "out"
  /\ \E i, j \in 1..Len(ms.motion_json) :
       ms.motion_json[i].type = "hit" /\ ms.motion_json[j].type = "hold"
  /\ 0 < ms.out.motion_to_music[1]
  /\ ms.out.motion_to_music[1] < ms.out.motion_to_music[2]

\* One hit at t = 1.0 s against one keypoint at t = 1.05 s, tau = 0.3 s.
ExampleCall ==
  /\ ms.tau = DefaultTau
  /\ ms.motion_json = <<MotionItem("hit", 20)>>
  /\ \E b \in {"low", "mid", "high"} :
       ms.music_json = [x \in {"low", "mid", "high"} |->
                          IF x = b THEN <<21>> ELSE <<>>]

\* C17: compute_match_score returns an integer score in 0..100 that follows
\* the sigmoid of the coverage (50 exactly at coverage x0, above it above,
\* below it below); with the defaults, no motion events give 0 without a
\* division by zero, and one hit at 1.0 s against one keypoint at 1.05 s
\* gives 97.
C17_ScoreRange ==
  ms.pc = "out" =>
    LET c == ms.out.motion_to_music
        score == ms.out.score
    IN /\ score \in 0..100
       /\ 100 * c[1] >= SigmoidX0 * c[2] => score >= 50
       /\ 100 * c[1] <= SigmoidX0 * c[2] => score <= 50
       /\ (ms.motion_json = <<>> /\ ms.tau = DefaultTau) => score = 0
       /\ ExampleCall => score = 97

\* The worked example was scored.
C17_Witness ==
  /\ ms.pc = "out"
  /\ ExampleCall
  /\ ms.out.score = 97

\* C18: a submission that carries neither a video nor an audio reference,
\* with or without music_only, is rejected synchronously: no step creates a
\* Request without media, and the rejecting step writes no Request row and
\* publishes no LiveStatus.
C18_NoMediaRejected ==
  [][/\ \A r \in Requests :
          (~req[r].exists /\ req'[r].exists)
            => (req'[r].video_id /= 0 \/ req'[r].audio_id /= 0)
     /\ (resp' /= resp /\ resp'.detail = "video or audio is required")
          => (resp'.code = 400 /\ req' = req /\ job' = job /\ api' = api)]_vars

\* A submission without media was rejected and the tables are still empty.
C18_Witness ==
  /\ resp = Respond("create_analysis_request", Http(400, "video or audio is required"))
  /\ \A r \in Requests : ~req[r].exists /\ ~job[r].exists
  /\ api = NoCall

\* The media files of the given type that belong to somebody else.
ForeignMedia(user_id, type) ==
  {m \in MediaRefs : /\ MediaFile(m).exists
                     /\ MediaFile(m).user_id /= user_id
                     /\ MediaFile(m).type = type}

\* C19: for every operation that takes a request or media reference, the
\* outcome for a reference that belongs to another user equals the outcome
\* for a reference that names nothing (both NotFound).
C19_ForeignLooksAbsent ==
  \A u \in Users :
    /\ \A r \in Requests :
         (req[r].exists /\ req[r].user_id /= u)
           => RequestGate(u, r) = RequestGate(u, MissingRequest)
    /\ \A p \in CreateInputs :
         (p.user_id = u /\ p.video_id \in ForeignMedia(u, "video") /\ p.audio_id = 0)
           => CreateResponse(p) = CreateResponse([p EXCEPT !.video_id = MissingMedia])
    /\ \A p \in CreateInputs :
         (p.user_id = u /\ p.audio_id \in ForeignMedia(u, "audio") /\ p.video_id = 0)
           => CreateResponse(p) = CreateResponse([p EXCEPT !.audio_id = MissingMedia])
    /\ \A r \in Requests, m \in ForeignMedia(u, "audio") :
         UpdateAudioResponse(u, r, m) = UpdateAudioResponse(u, r, MissingMedia)
    /\ \A r \in Requests, m \in ForeignMedia(u, "video") :
         UpdateVideoResponse(u, r, m) = UpdateVideoResponse(u, r, MissingMedia)

\* C20: every Request has a video reference or an audio reference, whatever
\* operations were applied to it.
C20_HasMedia ==
  \A r \in Requests : req[r].exists => (req[r].video_id /= 0 \/ req[r].audio_id /= 0)

\* The rows a tick of worker w may take: status matches the class filter,
\* not deleted, and no other worker's transaction holds the row lock.
Eligible(w) ==
  {q \in Requests : /\ req[q].exists
                    /\ req[q].status = WorkerFilter(w)
                    /\ ~req[q].is_deleted
                    /\ lock[q] \in {0, w}}

\* C25: the request a tick takes is the earliest created one among those
\* that match the worker's status filter, are not deleted and are not locked
\* by another worker; a locked older row is skipped, not waited for.
C25_OldestUnlocked ==
  [][\A w \in Workers :
       (wk[w].pc = "idle" /\ wk'[w].pc = "claimed")
         => /\ wk'[w].rid \in Eligible(w)
            /\ \A q \in Eligible(w) : wk'[w].rid <= q
            /\ lock'[wk'[w].rid] = w]_vars

\* The older request is locked by one worker's claim and the other worker
\* has taken the younger one.
C25_Witness ==
  \E w1 \in MotionWorkers, w2 \in MotionWorkers :
    /\ w1 /= w2
    /\ wk[w1].pc = "claimed" /\ wk[w1].rid = 1 /\ lock[1] = w1
    /\ wk[w2].pc = "claimed" /\ wk[w2].rid = 2 /\ lock[2] = w2

\* C21: no exception raised while a claimed request is processed ends the
\* worker's poll loop: a worker in the except branch of a tick gets back to
\* polling, where it can claim and complete another request.
C21_LoopContinues ==
  \A w \in MotionWorkers : (wk[w].pc = "except") ~> (wk[w].pc = "idle")

\* One worker failed the first request and then completed the second.
C21_Witness ==
  \E w \in MotionWorkers :
    /\ claimers[1] = {w} /\ req[1].status = "failed"
    /\ claimers[2] = {w} /\ req[2].status = "done"
    /\ wk[w].pc = "idle"

\* C22: the event stream emits a payload exactly when it differs from the
\* last one, always emits the first status it observes, and ends, emitting
\* nothing afterwards, right after the first poll whose merged status is done
\* or failed, or after the single failed / "not found" event of an absent or
\* deleted request.
C22_StreamOnChange ==
  [][/\ sse.state = "closed" => sse' = sse
     /\ (sse.state = "open" /\ sse' /= sse) =>
          /\ sse'.emitted <=> (sse'.last /= sse.last)
          /\ sse.last = NoPayload => sse'.emitted
          /\ (sse'.state = "closed") <=> (sse'.last.status \in {"done", "failed"})
          /\ sse'.state \in {"open", "closed"}
          /\ IF ~req[sse.rid].exists \/ req[sse.rid].is_deleted
             THEN sse'.last = NotFoundPayload(sse.rid) /\ sse'.state = "closed"
             ELSE sse'.last.status = StatusResponse(sse.rid).status]_vars

\* The stream emitted the starting status, polled on and ended on done.
C22_Witness ==
  /\ sse.state = "closed"
  /\ sse.last.status = "done"
  /\ sse.emitted
  /\ req[sse.rid].status = "done"

\* C23: a status read of a live request returns the LiveStatus values of
\* status, error, message, progress and log whenever a LiveStatus record
\* exists, and the Request's status and error message when none exists.
C23_LiveStatusFirst ==
  [][(/\ sse.state = "open" /\ sse' /= sse
      /\ req[sse.rid].exists /\ ~req[sse.rid].is_deleted
      /\ ~IsStale(sse.rid)) =>
       IF job[sse.rid].exists
       THEN /\ sse'.last.status = job[sse.rid].status
            /\ sse'.last.error_message = job[sse.rid].error_message
            /\ sse'.last.message = job[sse.rid].message
            /\ sse'.last.progress = job[sse.rid].progress
            /\ sse'.last.log = job[sse.rid].log
       ELSE /\ sse'.last.status = req[sse.rid].status
            /\ sse'.last.error_message = req[sse.rid].error_message]_vars

\* C24: a successful claim sets Request.status to running and changes no
\* other Request field but started_at, which it sets only when it is unset (a
\* claim after a rerun keeps the first started_at); LiveStatus running with
\* the starting message and progress 0.03 is published before any sub-task
\* step runs.
C24_ClaimStamps ==
  [][\A w \in Workers :
       LET r == wk[w].rid
       IN /\ (wk[w].pc = "claimed" /\ wk'[w].pc = "start") =>
               /\ req'[r] = [req[r] EXCEPT !.status = "running",
                                           !.started_at = req'[r].started_at]
               /\ req'[r].started_at =
                    IF req[r].started_at = NoVal THEN now ELSE req[r].started_at
          /\ (wk[w].pc = "start" /\ wk'[w].pc \notin {"start", "dead"}) =>
               /\ wk'[w].pc = "handle"
               /\ job'[r].exists
               /\ job'[r].status = "running"
               /\ job'[r].message = "analysis: starting"
               /\ job'[r].progress = 3
          /\ (wk'[w].pc = "handle" /\ wk[w].pc /= "handle") => wk[w].pc = "start"
          /\ (wk'[w].pc = "start" /\ wk[w].pc /= "start") => wk[w].pc = "claimed"]_vars

\* The first run failed and published its error; the request was rerun and
\* claimed a second time, later: started_at still holds the first time.
C24_Witness ==
  /\ wk[1].pc = "start"
  /\ wk[1].rid = 1
  /\ req[1].status = "running"
  /\ job[1].message = "motion rerun queued"
  /\ job[1].error_message \notin {"none", StalledMessage}
  /\ req[1].started_at /= NoVal
  /\ req[1].started_at < now

\* C26: for a music_only request a motion worker runs no primary sub-task and
\* writes no motion timeline: after its claim it only moves the row from
\* running to queued_music (music_only kept, skip_music cleared, finished_at
\* untouched) and publishes LiveStatus queued; finalizing is left to a
\* music-class worker.
C26_MotionOnlyHandsOff ==
  [][\A w \in MotionWorkers :
       LET r == wk[w].rid
       IN (/\ wk[w].pc \notin {"idle", "claimed", "start", "dead"}
           /\ req[r].music_only
           /\ wk'[w] /= wk[w]) =>
            /\ res' = res
            /\ wk'[w].pc \in {"final_check", "idle"}
            /\ req'[r] \in {req[r], [req[r] EXCEPT !.status = "queued_music",
                                                   !.skip_music = FALSE]}
            /\ req'[r] /= req[r] => req[r].status = "running"
            /\ job'[r] \in {job[r], set_job("worker", job, r, "queued", "none",
                                            "music: queued", 5, "none")[r]}]_vars

\* C27: for a request without music_only the primary forks the music unit
\* exactly when skip_music is not set and the request has an audio or
\* extract_audio; skip_music suppresses the fork even with an audio; the fork
\* is started on the way to the download, and nowhere else.
C27_ForkRule ==
  [][/\ \A w \in MotionWorkers :
          LET r == wk[w].rid
          IN (wk[w].pc = "handle" /\ wk'[w].pc = "dl") =>
               /\ ~req[r].music_only
               /\ (wk'[w].mt /= 0) <=>
                    (~req[r].skip_music /\ (req[r].audio_id /= 0 \/ req[r].extract_audio))
               /\ wk'[w].mt /= 0 =>
                    /\ th'[wk'[w].mt].pc = "start"
                    /\ th'[wk'[w].mt].rid = r
                    /\ th'[wk'[w].mt].owner = w
               /\ wk'[w].mt = 0 => th' = th
     /\ \A t \in Threads :
          (th'[t].pc = "start" /\ th[t].pc /= "start") =>
             \E w \in MotionWorkers :
               wk[w].pc = "handle" /\ wk'[w].pc = "dl" /\ wk'[w].mt = t]_vars

\* A request with an audio and skip_music reached the download with no unit
\* forked.
C27_Witness ==
  /\ wk[1].pc = "dl"
  /\ req[wk[1].rid].skip_music
  /\ req[wk[1].rid].audio_id /= 0
  /\ wk[1].mt = 0
  /\ \A t \in Threads : th[t].pc = "free"

\* C28: the in-process cache is only a fallback: in every process, whenever
\* the store holds a LiveStatus record get_job returns the persisted values,
\* and the cache entry only when there is no record; so a status read of a
\* request with a record reports the persisted status, whatever the cache of
\* the API process says.
C28_CacheIsFallback ==
  /\ [](\A p \in Procs, r \in Requests :
          IF job[r].exists
          THEN get_job(p, r) = [status |-> job[r].status,
                                error |-> job[r].error_message,
                                message |-> job[r].message,
                                progress |-> job[r].progress,
                                log |-> job[r].log]
          ELSE get_job(p, r) = job[r].cache[p])
  /\ [][\A r \in Requests :
          (/\ last_read' /= last_read /\ last_read'.rid = r
           /\ job[r].exists /\ ~IsStale(r)) =>
            last_read'.status = job[r].status]_vars

\* A status read answered "running" from the record while the API process's
\* cache entry still said "queued".
C28_Witness ==
  /\ last_read.rid = 1
  /\ last_read.status = "running"
  /\ job[1].exists
  /\ job[1].status = "running"
  /\ job[1].cache["api"] /= <<>>
  /\ job[1].cache["api"].status = "queued"
  /\ job[1].cache["worker"].status = "running"

\* C29: a status read changes no Request or LiveStatus field when the stale
\* threshold is 0 or less, or when the merged status is not running; with
\* the threshold off nothing ever fails a request as stalled, so a running
\* request whose worker died stays running.
C29_ReadChangesNothing ==
  [][/\ \A r \in Requests :
          (/\ last_read' /= last_read
           /\ last_read'.rid = r
           /\ \/ stale_minutes <= 0
              \/ (IF job[r].exists THEN job[r].status ELSE req[r].status) /= "running")
          => (req' = req /\ job' = job /\ api' = api)
     /\ stale_minutes <= 0 =>
          /\ \A r \in Requests :
               req'[r].error_message = StalledMessage =>
                 req[r].error_message = StalledMessage
          /\ api'.error /= StalledMessage]_vars

\* Threshold 0: the worker died in mid-run, time went by past any positive
\* threshold, the status was read, and the request is still running.
C29_Witness ==
  /\ stale_minutes = 0
  /\ wk[1].pc = "dead"
  /\ req[1].status = "running"
  /\ job[1].exists /\ job[1].status = "running"
  /\ job[1].updated_at < now - StaleRunningMinutes
  /\ last_read.rid = 1
  /\ last_read.status = "running"
  /\ ~last_read.marked

\* C30: when a request fails, also after a sub-task has recorded an artifact
\* in Result, the failure handling leaves every Result field as it was: its
\* commit changes only status, error message and finished_at of the Request,
\* and its publish changes only the LiveStatus of that request.
C30_FailureKeepsResult ==
  [][\A w \in Workers :
       LET r == wk[w].rid
       IN /\ (wk[w].pc = "except" /\ wk'[w].pc /= "except") =>
               /\ res' = res
               /\ job' = job
               /\ req' = [req EXCEPT ![r].status = req'[r].status,
                                     ![r].error_message = req'[r].error_message,
                                     ![r].finished_at = req'[r].finished_at]
               /\ req'[r].error_message = wk[w].exc
          /\ (wk[w].pc = "except_pub" /\ wk'[w].pc /= "except_pub") =>
               /\ res' = res
               /\ req' = req
               /\ \A q \in Requests \ {r} : job'[q] = job[q]
               /\ job'[r].status = "failed"]_vars

\* The primary stored its timeline, the run failed afterwards, and the
\* failure was recorded: the timeline is still there.
C30_Witness ==
  /\ wk[1].pc = "except_pub"
  /\ req[wk[1].rid].status = "failed"
  /\ req[wk[1].rid].error_message /= "none"
  /\ res[wk[1].rid].exists
  /\ res[wk[1].rid].motion_json_s3_key

\* C31: an accepted submission creates the Request in queued_music with
\* music_only set exactly when no video is given, and in queued otherwise; it
\* sets skip_music when a video is given, no audio is given and extract_audio
\* is not set; and the LiveStatus it publishes first has status queued.
C31_SubmissionState ==
  [][\A r \in Requests :
       /\ (~req[r].exists /\ req'[r].exists) =>
            /\ resp'.code = Ok.code
            /\ (req'[r].status = "queued_music" /\ req'[r].music_only)
                 <=> (req'[r].video_id = 0)
            /\ req'[r].video_id /= 0 => req'[r].status = "queued"
            /\ (req'[r].video_id /= 0 /\ req'[r].audio_id = 0
                /\ ~req'[r].extract_audio) => req'[r].skip_music
            /\ ~req'[r].is_deleted
            /\ api' = Publish(r, "queued", "none", "none", NoVal)
       /\ (~job[r].exists /\ job'[r].exists) =>
            /\ job'[r].status = "queued"
            /\ job'[r].error_message = "none"]_vars

\* A submission with an audio only was accepted: queued_music, music_only,
\* and its LiveStatus says queued.
C31_Witness ==
  /\ req[1].exists
  /\ req[1].video_id = 0
  /\ req[1].audio_id /= 0
  /\ req[1].status = "queued_music"
  /\ req[1].music_only
  /\ ~req[1].skip_music
  /\ job[1].exists
  /\ job[1].status = "queued"

\* C32: whenever a worker finalizes a request as done while its Result holds
\* a motion or object timeline and a music timeline, the stored match score
\* is not null, unless a scoring attempt raised.
C32_ScoredWhenDone ==
  [][\A w \in Workers :
       LET r == wk[w].rid
       IN (/\ wk[w].pc = "final_commit" /\ wk'[w].pc = "final_pub"
           /\ req'[r].status = "done"
           /\ res[r].exists
           /\ res[r].motion_json_s3_key \/ res[r].magic_json_s3_key
           /\ res[r].music_json_s3_key
           /\ ~res[r].score_raised)
          => res[r].match_score /= "null"]_vars

\* C33: after a motion worker has handed a music_only request off (status
\* queued_music committed), it changes the request's status no more in that
\* tick; it never marks it done, also when a music worker has claimed the
\* request before the tick re-reads the status.
C33_NoWriteAfterHandoff ==
  [][\A w \in MotionWorkers :
       LET r == wk[w].rid
       IN (/\ wk[w].pc \in {"final_check", "final_commit", "final_pub"}
           /\ req[r].music_only
           /\ wk'[w] /= wk[w])
          => /\ req'[r].status = req[r].status
             /\ req'[r].finished_at = req[r].finished_at]_vars

\* C34: the primary's write of its artifact key to Result succeeds under
\* every interleaving with the forked music unit's creation of the same
\* Result row: its commit never fails, and the request does not fail for it.
C34_PrimaryWriteSucceeds ==
  [][\A w \in MotionWorkers :
       LET r == wk[w].rid
       IN (wk[w].pc = "result" /\ wk'[w].pc /= "result") =>
            /\ wk'[w].pc = "join"
            /\ res'[r].exists
            /\ res'[r].motion_json_s3_key \/ res'[r].magic_json_s3_key]_vars

\* C35: in every reachable state a non-null match score implies that Result
\* holds a motion or object timeline and a music timeline.
C35_ScoreImpliesTimelines ==
  \A r \in Requests :
    res[r].match_score /= "null" =>
      /\ res[r].motion_json_s3_key \/ res[r].magic_json_s3_key
      /\ res[r].music_json_s3_key

\* C36: whenever no worker tick, status read or external operation is in
\* progress for a request that is not deleted and has a LiveStatus record,
\* LiveStatus.status agrees with Request.status: queued for queued and
\* queued_music, the same value for running, done and failed.
C36_StatusesAgree ==
  \A r \in Requests :
    (/\ req[r].exists /\ ~req[r].is_deleted
     /\ job[r].exists
     /\ api.op = "idle"
     /\ \A w \in Workers : wk[w].pc = "idle" \/ wk[w].rid /= r
     /\ \A t \in Threads : th[t].pc \in {"free", "done"} \/ th[t].rid /= r)
    => job[r].status = IF req[r].status \in {"queued", "queued_music"}
                       THEN "queued" ELSE req[r].status

\* C37: once a failed request has been queued again (its Request carries no
\* error message any more), status reads report no error message until a new
\* failure is recorded; a rerun that ends in done is reported done without an
\* error message.
C37_RerunClearsError ==
  [][\A r \in Requests :
       (/\ last_read' /= last_read
        /\ last_read'.rid = r
        /\ req[r].error_message = "none"
        /\ ~IsStale(r))
       => last_read'.error_message = "none"]_vars

\* C38: once delete_analysis_request has committed for a request, no
\* LiveStatus row and no Result row exists for it in any later state.
C38_DeletedRowsStayGone ==
  \A r \in Requests :
    req[r].is_deleted => (~job[r].exists /\ ~res[r].exists)

=============================================================================
